---- MODULE Spec2Model ----
(***************************************************************************)
(* Optimization core of the Midlife Wealth Tax application:                *)
(* OptimizationService (result cache, warm start, grid search, numerical   *)
(* refinement) on top of the closed-form economic model of                 *)
(* UtilityFunctions (kappa, U2, lifetimeUtility, checkConstraints).        *)
(*                                                                         *)
(* JavaScript numbers are modelled as fixed-point integers: a real x is    *)
(* the integer x * Scale (four decimal places); t1 and t2 are whole years  *)
(* and stay plain integers.  Math.exp, Math.log and Math.pow are computed  *)
(* by series on that representation.                                       *)
(***************************************************************************)
EXTENDS Integers, Sequences, FiniteSets, TLC

(***************************************************************************)
(* Fixed-point representation of JavaScript numbers                        *)
(***************************************************************************)
Scale == 10 * 1000

\* x rounded down to a whole number of thousandths, and the thousandth unit
Milli == Scale \div 1000

Abs(x) == IF x < 0 THEN -x ELSE x

Max2(a, b) == IF a >= b THEN a ELSE b

Min2(a, b) == IF a <= b THEN a ELSE b

\* a local constant: F applied to the value of x, which is computed once
Bind(x, F(_)) == F(x)

\* a * b on scaled numbers, split so that no partial product overflows
MulS(a, b) ==
    LET ah == a \div Scale
        al == a % Scale
        bh == b \div Scale
        bl == b % Scale
    IN  ah * bh * Scale + ah * bl + al * bh + (al * bl) \div Scale

\* a / b on scaled numbers (b # 0)
DivPos(a, b) ==
    LET q  == a \div b
        rm == a % b
    IN  IF b < 200000
          THEN q * Scale + (rm * Scale) \div b
          ELSE q * Scale + (rm * (Scale \div 100)) \div (b \div 100)

DivS(a, b) == IF b > 0 THEN DivPos(a, b) ELSE DivPos(-a, -b)

\* Euler's number and ln 2 on the scale
EulerE == (27183 * Scale) \div 10000

Ln2 == (6931 * Scale) \div 10000

RECURSIVE ExpSeries(_, _, _, _)
ExpSeries(f, term, k, acc) ==
    IF term = 0 THEN acc
    ELSE ExpSeries(f, MulS(term, f) \div k, k + 1, acc + term)

RECURSIVE ExpWhole(_, _)
ExpWhole(n, v) == IF n = 0 THEN v ELSE ExpWhole(n - 1, MulS(v, EulerE))

\* Math.exp for x >= 0
ExpNonNeg(x) == ExpWhole(x \div Scale, ExpSeries(x % Scale, Scale, 1, 0))

\* Math.exp
Exp(x) == IF x >= 0 THEN ExpNonNeg(x) ELSE DivS(Scale, ExpNonNeg(-x))

RECURSIVE LnSeries(_, _, _, _)
LnSeries(z2, term, k, acc) ==
    IF term = 0 THEN acc
    ELSE LnSeries(z2, MulS(term, z2), k + 2, acc + term \div k)

RECURSIVE LnReduce(_, _)
LnReduce(y, acc) ==
    IF y >= 2 * Scale THEN LnReduce(y \div 2, acc + Ln2)
    ELSE IF y < Scale THEN LnReduce(y * 2, acc - Ln2)
    ELSE Bind(DivS(y - Scale, y + Scale),
              LAMBDA z : acc + 2 * LnSeries(MulS(z, z), z, 1, 0))

\* Math.log for y > 0
Ln(y) == LnReduce(y, 0)

\* Math.pow for a positive base
Pow(a, b) == Exp(MulS(b, Ln(a)))

(***************************************************************************)
(* Special JavaScript number values.  NaN compares false with everything;  *)
(* -Infinity lies below every number; magnitudes of 1e9 and more lie       *)
(* outside the scale and are all represented by Saturated.                 *)
(***************************************************************************)
Saturated == 2 * 1000 * 1000 * 1000

NegInfinity == -Saturated

NaN == -Saturated - 1

\* Number.isFinite on a modelled number
isFinite(x) == x # NaN /\ x # NegInfinity /\ x # Saturated

\* JavaScript comparisons: false as soon as one side is NaN
LessEq(a, b) == a # NaN /\ b # NaN /\ a <= b

GreaterEq(a, b) == a # NaN /\ b # NaN /\ a >= b

Greater(a, b) == a # NaN /\ b # NaN /\ a > b

\* the value lifetimeUtility returns for an infeasible point
Sentinel == -5000 * Scale

\* the objective value numericalRefinement gives an infeasible point (1e10),
\* and the limit a refined objective has to stay under (1e9)
PenaltyValue == Saturated

RefineLimit == Saturated

\* 0.01, the margin of the search box
Centi == Scale \div 100

(***************************************************************************)
(* UtilityFunctions                                                        *)
(***************************************************************************)
\* a thrown MathematicalError, and a returned number
Thrown == [ok |-> FALSE, v |-> 0]

Val(x) == [ok |-> TRUE, v |-> x]

\* kappa = (r * (gamma - 1) + rho) / gamma; the caller has excluded gamma = 0
kappa(r, rho, gamma) == DivS(MulS(r, gamma - Scale) + rho, gamma)

\* the result of U2 once term1 and term2 are known to be positive.
\* term2 > 0 holds exactly when kappa > 0 on the reals; the kappaVal guard
\* stands for the non-finite result Math.pow(kappaVal, -gamma) gives
\* otherwise.
U2Result(gamma, T, term1, term2, kappaVal) ==
    IF kappaVal <= 0 THEN Thrown
    ELSE Bind(Exp(-(kappaVal * T)), LAMBDA expNegKappaT :
         IF gamma = Scale
           THEN Val(DivS(MulS(Ln(term1), Scale - expNegKappaT), kappaVal) - Ln(term2))
           ELSE Bind(MulS(Scale - gamma, Pow(term2, Scale - gamma)), LAMBDA den :
                IF den = 0 THEN Thrown
                ELSE Val(DivS(MulS(MulS(Pow(term1, Scale - gamma),
                                        Scale - expNegKappaT),
                                   Pow(kappaVal, -gamma)),
                              den))))

\* U2 for an infinite A or B.  term1 = expRT * A - B is +Infinity, -Infinity
\* or NaN; only +Infinity gets past the guards, and then the result is
\* finite (a zero) just when gamma > 1, so that term1^(1 - gamma) is 0,
\* and term2 and kappa are positive.
U2Unbounded(r, rho, gamma, T, A, B) ==
    IF ~((A = Saturated /\ B # Saturated) \/ (isFinite(A) /\ B = NegInfinity))
      THEN Thrown
    ELSE IF gamma <= Scale THEN Thrown
    ELSE IF Exp(r * T) - Exp(DivS((r - rho) * T, gamma)) <= 0 THEN Thrown
    ELSE IF kappa(r, rho, gamma) <= 0 THEN Thrown
    ELSE Val(0)

\* U2: period utility of running wealth A down to B over T years
U2(r, rho, gamma, T, A, B) ==
    IF A = NaN \/ B = NaN THEN Thrown
    ELSE IF T <= 0 THEN Thrown
    ELSE IF ~isFinite(A) \/ ~isFinite(B) THEN U2Unbounded(r, rho, gamma, T, A, B)
    ELSE Bind(Exp(r * T), LAMBDA expRT :
         Bind(MulS(expRT, A) - B, LAMBDA term1 :
         IF term1 <= 0 THEN Thrown
         ELSE IF gamma = 0 THEN Thrown
         ELSE Bind(expRT - Exp(DivS((r - rho) * T, gamma)), LAMBDA term2 :
              IF term2 <= 0 THEN Thrown
              ELSE U2Result(gamma, T, term1, term2, kappa(r, rho, gamma)))))

\* the bequest term: beta log(w2) or beta w2^(1 - eta) / (1 - eta)
BequestUtility(beta, eta, w2) ==
    IF eta = Scale
      THEN MulS(beta, Ln(Max2(w2, 1)))
      ELSE DivS(MulS(beta, Pow(Max2(w2, 1), Scale - eta)), Scale - eta)

\* w1 * (1 - tau), also for a w1 that is NaN or infinite
AfterTax(w1, tau) ==
    IF w1 = NaN THEN NaN
    ELSE IF isFinite(w1) THEN MulS(w1, Scale - tau)
    ELSE IF tau = Scale THEN NaN
    ELSE IF tau < Scale THEN w1
    ELSE -w1

\* the total, or the sentinel for a total that is not finite
Total(totalUtility) == IF isFinite(totalUtility) THEN totalUtility ELSE Sentinel

\* variant: the bequest is not tested for w2 <= 0
lifetimeUtilityAnyBequest(r, rho, gamma, t1, t2, beta, eta, tau, w0, w1, w2) ==
    Bind(U2(r, rho, gamma, t1, w0, w1), LAMBDA u1 :
    IF ~u1.ok THEN Sentinel
    ELSE Bind(U2(r, rho, gamma, t2, AfterTax(w1, tau), w2), LAMBDA u2 :
         IF ~u2.ok THEN Sentinel
         ELSE Total(u1.v + MulS(Exp(-(rho * t1)), u2.v)
                        + BequestUtility(beta, eta, Max2(w2, 1)))))

\* lifetimeUtility: u1 + e^(-rho t1) u2 + bequest, or the sentinel
lifetimeUtility(r, rho, gamma, t1, t2, beta, eta, tau, w0, w1, w2) ==
    Bind(U2(r, rho, gamma, t1, w0, w1), LAMBDA u1 :
    IF ~u1.ok THEN Sentinel
    ELSE Bind(U2(r, rho, gamma, t2, AfterTax(w1, tau), w2), LAMBDA u2 :
         IF ~u2.ok THEN Sentinel
         ELSE IF w2 <= 0 THEN Sentinel
         ELSE Total(u1.v + MulS(Exp(-(rho * t1)), u2.v)
                        + BequestUtility(beta, eta, w2))))

\* checkConstraints: 0 < w1 < w0 e^(r t1) and 0 < w2 < w1 (1 - tau) e^(r t2)
checkConstraints(w1, w2, parameters) ==
    IF LessEq(w1, 0) \/ LessEq(w2, 0) THEN FALSE
    ELSE IF w1 = NaN THEN TRUE
    ELSE IF w1 >= MulS(Exp(parameters.r * parameters.t1), parameters.w0) THEN FALSE
    ELSE IF w2 = NaN THEN TRUE
    ELSE ~(w2 >= MulS(MulS(w1, Scale - parameters.tau),
                      Exp(parameters.r * parameters.t2)))

(***************************************************************************)
(* ParameterValidator                                                      *)
(***************************************************************************)
InRange(v, lo, hi) == v >= lo /\ v <= hi

\* validate(parameters).isValid: the single-field rules and the cross rules
ValidParameters(p) ==
    /\ InRange(p.r, Scale \div 1000, (2 * Scale) \div 10)
    /\ InRange(p.rho, Scale \div 1000, (15 * Scale) \div 100)
    /\ InRange(p.gamma, Scale \div 10, 5 * Scale) /\ p.gamma # Scale
    /\ InRange(p.eta, Scale \div 10, 5 * Scale) /\ p.eta # Scale
    /\ InRange(p.beta, 0, 50 * Scale)
    /\ InRange(p.tau, 0, (99 * Scale) \div 100)
    /\ InRange(p.t1, 1, 100)
    /\ InRange(p.t2, 1, 100)
    /\ InRange(p.w0, Scale \div 100, 1000 * Scale)
    /\ ~(p.r <= p.rho)
    /\ ~(p.t1 + p.t2 > 120)
    /\ ~(p.t1 < 5)
    /\ ~(Abs(p.gamma - p.eta) > 3 * Scale)

(***************************************************************************)
(* OptimizationService: options and state                                  *)
(***************************************************************************)
\* options.gridSteps, options.cacheSize, options.cacheTTL (in clock ticks)
GridSteps == 2

CacheSize == 3

CacheTTL == 1

\* the clock stops at MaxTime
MaxTime == 2

\* the number of findOptimalWealth calls a behaviour makes at most
MaxCalls == 3

\* options.maxWorkers (navigator.hardwareConcurrency): the size of the pool
MaxWorkers == 1

\* the number of jobs a behaviour submits to the WorkerManager at most
MaxJobs == 2

\* the number of workers that crash in a behaviour at most
MaxCrashes == 1

\* the number of timers (setTimeout calls) the Application arms in a
\* behaviour at most
MaxTimers == 3

VARIABLES
    cache,              \* this.cache: key -> [result, timestamp]
    cacheOrder,         \* this.cacheOrder: keys, most recently used first
    lastOptimalResult,  \* this.lastOptimalResult: <<>> (null) or <<[w1, w2]>>
    lastParameters,     \* this.lastParameters: <<>> (null) or <<parameters>>
    warmStartEnabled,   \* this.options.warmStartEnabled
    workerOptions,      \* this.options.useWebWorkers and
                        \* this.options.fallbackToMainThread
    now,                \* Date.now()
    ret,                \* what the last findOptimalWealth call gave its caller,
                        \* with the search box and grid result it computed
    recency,            \* keys of the cache map in the order of their last use
    calls,              \* findOptimalWealth calls made so far
    taxTable,           \* generateTaxEffectTable: its parameters, the data
                        \* it has collected and the effects it reports
    inFlight,           \* findOptimalWealth calls that were not awaited: the
                        \* ones suspended at an await and what the others
                        \* returned
    manager,            \* the WorkerManager: its pool, its jobs and what
                        \* became of their promises
    app                 \* the Application: its state object, its throttle
                        \* timer and its calculation

vars == <<cache, cacheOrder, lastOptimalResult, lastParameters,
          warmStartEnabled, workerOptions, now, ret, recency, calls, taxTable,
          inFlight, manager, app>>

Null == <<>>

Some(x) == <<x>>

(***************************************************************************)
(* Parameter sets the callers pass                                         *)
(***************************************************************************)
\* DEFAULT_PARAMETERS
\* the order in which DEFAULT_PARAMETERS lists its fields
FieldOrder == <<"r", "rho", "gamma", "eta", "beta", "tau", "t1", "t2", "w0">>

\* a parameters object: its fields, and in order the names of the fields in
\* the order they were put on the object
DefaultParameters ==
    [r |-> (6 * Scale) \div 100, rho |-> (4 * Scale) \div 100,
     gamma |-> (7 * Scale) \div 10, eta |-> (17 * Scale) \div 10,
     beta |-> 3 * Scale, tau |-> 0, t1 |-> 20, t2 |-> 25, w0 |-> Scale,
     order |-> FieldOrder]

\* the defaults with w0 a slider micro-movement away (1.0004)
NudgedParameters == [DefaultParameters EXCEPT !.w0 = Scale + (4 * Scale) \div 10000]

\* the defaults at the low end of the gamma slider (0.3): kappa < 0
LowGammaParameters == [DefaultParameters EXCEPT !.gamma = (3 * Scale) \div 10]

\* a 90% tax with a long and with a short second period
HighTaxLongParameters == [DefaultParameters EXCEPT !.tau = (9 * Scale) \div 10, !.t2 = 30]

HighTaxShortParameters == [DefaultParameters EXCEPT !.tau = (9 * Scale) \div 10, !.t2 = 20]

\* r = rho: refused by the validator
InvalidParameters == [DefaultParameters EXCEPT !.r = (4 * Scale) \div 100]

(***************************************************************************)
(* Warm start                                                              *)
(***************************************************************************)
ImportantParams == {"r", "rho", "gamma", "eta", "beta", "tau"}

\* Math.abs(val1 - val2) / Math.max(val1, val2) > threshold (0.1);
\* 0/0 is NaN, which is not greater; x/0 is Infinity, which is
\* variant: a difference of exactly the threshold counts as too large
TooDifferentAtThreshold(val1, val2) ==
    LET d == Abs(val1 - val2)
        m == Max2(val1, val2)
    IN  IF m = 0 THEN d # 0
        ELSE IF m > 0 THEN 10 * d >= m
        ELSE FALSE

TooDifferent(val1, val2) ==
    LET d == Abs(val1 - val2)
        m == Max2(val1, val2)
    IN  IF m = 0 THEN d # 0
        ELSE IF m > 0 THEN 10 * d > m
        ELSE FALSE

isParameterSimilar(params1, params2) ==
    IF params2 = Null THEN FALSE
    ELSE \A param \in ImportantParams :
             ~TooDifferent(params1[param], params2[1][param])

(***************************************************************************)
(* Search box                                                              *)
(***************************************************************************)
\* maxW1 = Math.exp(r * t1) * w0
MaxW1(parameters) == MulS(Exp(parameters.r * parameters.t1), parameters.w0)

\* variant: the cold box centred on a w2 of five times maxW1
ColdBoxHigh(maxW1) ==
    [centerW1 |-> MulS(maxW1, (6 * Scale) \div 10),
     centerW2 |-> maxW1 * 5,
     radius |-> (4 * Scale) \div 10]

ColdBox(maxW1) ==
    [centerW1 |-> MulS(maxW1, (6 * Scale) \div 10),
     centerW2 |-> MulS(maxW1, (5 * Scale) \div 10),
     radius |-> (4 * Scale) \div 10]

\* variant: the hint is used without asking checkConstraints
SearchCentreUnverified(parameters, enabled, lastResult, lastParams, maxW1) ==
    IF enabled /\ lastResult # Null /\ isParameterSimilar(parameters, lastParams)
      THEN [centerW1 |-> lastResult[1].w1,
            centerW2 |-> lastResult[1].w2,
            radius |-> (2 * Scale) \div 10]
      ELSE ColdBox(maxW1)

\* the centre and radius determineSearchSpace settles on
SearchCentre(parameters, enabled, lastResult, lastParams, maxW1) ==
    IF enabled /\ lastResult # Null /\ isParameterSimilar(parameters, lastParams)
      THEN IF ~checkConstraints(lastResult[1].w1, lastResult[1].w2, parameters)
             THEN ColdBox(maxW1)
             ELSE [centerW1 |-> lastResult[1].w1,
                   centerW2 |-> lastResult[1].w2,
                   radius |-> (2 * Scale) \div 10]
      ELSE ColdBox(maxW1)

\* Math.max, Math.min and a product, each NaN as soon as an argument is
MathMax(a, b) == IF a = NaN \/ b = NaN THEN NaN ELSE Max2(a, b)

MathMin(a, b) == IF a = NaN \/ b = NaN THEN NaN ELSE Min2(a, b)

Times(a, b) == IF a = NaN \/ b = NaN THEN NaN ELSE MulS(a, b)

\* the box around centre c
SearchBox(c, maxW1) ==
    [w1Min |-> MathMax(Centi, Times(c.centerW1, Scale - c.radius)),
     w1Max |-> MathMin(maxW1 - Centi, Times(c.centerW1, Scale + c.radius)),
     w2Min |-> MathMax(Centi, Times(c.centerW2, Scale - c.radius)),
     w2Max |-> MathMin(Times(c.centerW2, Scale + c.radius * 2), maxW1 * 3),
     centerW1 |-> c.centerW1,
     centerW2 |-> c.centerW2,
     radius |-> c.radius]

determineSearchSpace(parameters, enabled, lastResult, lastParams) ==
    Bind(MaxW1(parameters), LAMBDA maxW1 :
         SearchBox(SearchCentre(parameters, enabled, lastResult, lastParams, maxW1),
                   maxW1))

(***************************************************************************)
(* Grid search                                                             *)
(***************************************************************************)
Utility(p, w1, w2) ==
    lifetimeUtility(p.r, p.rho, p.gamma, p.t1, p.t2, p.beta, p.eta, p.tau, p.w0, w1, w2)

\* the sample the loops reach at step k (i outer, j inner)
\* lo + (hi - lo) * i / gridSteps
GridPoint(lo, hi, i) ==
    IF lo = NaN \/ hi = NaN THEN NaN ELSE lo + ((hi - lo) * i) \div GridSteps

GridW1(space, k) == GridPoint(space.w1Min, space.w1Max, k \div (GridSteps + 1))

GridW2(space, k) == GridPoint(space.w2Min, space.w2Max, k % (GridSteps + 1))

\* variant: every sample with a finite utility becomes the best
GridBetterLatest(w1, w2, utility, best) ==
    IF isFinite(utility)
      THEN [best EXCEPT !.w1 = w1, !.w2 = w2, !.utility = utility]
      ELSE best

\* the running best after a sample that passed checkConstraints
GridBetter(w1, w2, utility, best) ==
    IF isFinite(utility) /\ utility > best.utility
      THEN [best EXCEPT !.w1 = w1, !.w2 = w2, !.utility = utility]
      ELSE best

\* evaluations++
Counted(best) == [best EXCEPT !.evaluations = @ + 1]

\* a call of lifetimeUtility is about to be made
Evaluating(best) == [best EXCEPT !.utilityCalls = @ + 1]

\* one pass of the inner loop body: best is the running best with the
\* number of samples visited and of lifetimeUtility calls made so far
GridVisit(parameters, w1, w2, best) ==
    IF ~checkConstraints(w1, w2, parameters) THEN Counted(best)
    ELSE GridBetter(w1, w2, Utility(parameters, w1, w2),
                    Evaluating(Counted(best)))

RECURSIVE GridLoop(_, _, _, _)
GridLoop(parameters, space, k, best) ==
    IF k = (GridSteps + 1) * (GridSteps + 1) THEN best
    ELSE Bind(GridVisit(parameters, GridW1(space, k), GridW2(space, k), best),
              LAMBDA next :
                  IF next.evaluations > k
                    THEN GridLoop(parameters, space, k + 1, next)
                    ELSE next)

\* variant: the grid search reports success whatever it found
GridResultRegardless(best) ==
    [success |-> TRUE,
     w1 |-> best.w1,
     w2 |-> best.w2,
     utility |-> best.utility,
     evaluations |-> best.evaluations,
     method |-> "grid_search"]

GridResult(best) ==
    [success |-> best.utility > NegInfinity,
     w1 |-> best.w1,
     w2 |-> best.w2,
     utility |-> best.utility,
     evaluations |-> best.evaluations,
     method |-> "grid_search"]

\* the loop variables before the first sample
GridStart(space) ==
    [w1 |-> space.centerW1, w2 |-> space.centerW2, utility |-> NegInfinity,
     evaluations |-> 0, utilityCalls |-> 0]

\* variant: the search hands back the point of the warm-start slot when
\* the slot holds one
gridSearchFromSlot(parameters, space) ==
    IF lastOptimalResult = Null
      THEN GridResult(GridLoop(parameters, space, 0, GridStart(space)))
      ELSE [success |-> TRUE,
            w1 |-> lastOptimalResult[1].w1,
            w2 |-> lastOptimalResult[1].w2,
            utility |-> Utility(parameters, lastOptimalResult[1].w1,
                                lastOptimalResult[1].w2),
            evaluations |-> 0,
            method |-> "grid_search"]

gridSearch(parameters, space) ==
    GridResult(GridLoop(parameters, space, 0, GridStart(space)))

(***************************************************************************)
(* Numerical refinement.  numeric.uncmin is a library outside the          *)
(* repository: what it hands back is a choice among MinimizerChoices.  It  *)
(* reports the objective function at the point it returns, except under    *)
(* "nanStale", where the point is NaN and the value is the one of the      *)
(* start point.                                                            *)
(***************************************************************************)
MinimizerChoices == {"throws", "stay", "halveW2", "outside", "nan", "nanStale"}

\* -utility, or the penalty for an infeasible or sentinel utility
Penalised(utility) ==
    IF ~isFinite(utility) \/ utility = Sentinel THEN PenaltyValue ELSE -utility

objectiveFunction(parameters, w1, w2) ==
    IF ~checkConstraints(w1, w2, parameters) THEN PenaltyValue
    ELSE Penalised(Utility(parameters, w1, w2))

\* the point numeric.uncmin returns when started at the grid result
MinimizerPoint(parameters, gridResult, choice) ==
    CASE choice = "stay" -> [w1 |-> gridResult.w1, w2 |-> gridResult.w2]
      [] choice = "halveW2" ->
             [w1 |-> gridResult.w1,
              w2 |-> IF gridResult.w2 = NaN THEN NaN ELSE gridResult.w2 \div 2]
      [] choice = "outside" ->
             [w1 |-> MaxW1(parameters) + Centi, w2 |-> gridResult.w2]
      [] OTHER -> [w1 |-> NaN, w2 |-> NaN]

MinimizerResult(parameters, gridResult, x, choice) ==
    [threw |-> choice = "throws",
     solution |-> x,
     f |-> IF choice = "nanStale"
             THEN objectiveFunction(parameters, gridResult.w1, gridResult.w2)
             ELSE objectiveFunction(parameters, x.w1, x.w2),
     iterations |-> IF choice = "stay" THEN 0 ELSE 2]

uncmin(parameters, gridResult, choice) ==
    MinimizerResult(parameters, gridResult,
                    MinimizerPoint(parameters, gridResult, choice), choice)

\* a grid result handed on where a refined result is expected: it has no
\* iterations and no convergence field
GridFallback(gridResult) ==
    [w1 |-> gridResult.w1, w2 |-> gridResult.w2, utility |-> gridResult.utility,
     iterations |-> 0, convergence |-> "undefined", method |-> gridResult.method]

\* what numericalRefinement makes of the minimizer's result
Refined(parameters, gridResult, result) ==
    IF result.threw THEN GridFallback(gridResult)
    ELSE IF isFinite(result.f) /\ result.f < RefineLimit
            /\ checkConstraints(result.solution.w1, result.solution.w2, parameters)
      THEN [w1 |-> result.solution.w1,
            w2 |-> result.solution.w2,
            utility |-> -result.f,
            iterations |-> result.iterations,
            convergence |-> "converged",
            method |-> "numerical_refinement"]
      ELSE GridFallback(gridResult)

numericalRefinement(parameters, gridResult, choice) ==
    Refined(parameters, gridResult, uncmin(parameters, gridResult, choice))

NoResult ==
    [w1 |-> 0, w2 |-> 0, utility |-> 0, iterations |-> 0,
     convergence |-> "none", method |-> "none"]

\* variant: the final result is handed on as it is, without the defaults
\* for the fields a grid result lacks
PackagedAsIs(finalResult) == finalResult

\* the result object performMainThreadOptimization and performOptimization
\* build from the final result
Packaged(finalResult) ==
    [w1 |-> finalResult.w1,
     w2 |-> finalResult.w2,
     utility |-> finalResult.utility,
     iterations |-> finalResult.iterations,
     convergence |-> IF finalResult.convergence = "undefined"
                       THEN "grid_only"
                       ELSE finalResult.convergence,
     method |-> finalResult.method]

\* performMainThreadOptimization after a successful grid search
performMainThreadOptimization(parameters, gridResult, choice) ==
    Packaged(numericalRefinement(parameters, gridResult, choice))

(***************************************************************************)
(* The optimization worker.  Its kappa, U2, lifetimeUtility,               *)
(* checkConstraints and performNumericalRefinement are copies of the main  *)
(* thread's and are the operators above.                                   *)
(***************************************************************************)
\* the box of optimizeWealth in the worker
WorkerSearchSpace(parameters) ==
    [w1Min |-> MathMax(Centi, Times(MaxW1(parameters), (2 * Scale) \div 10)),
     w1Max |-> MathMin(MaxW1(parameters) - Centi,
                       Times(MaxW1(parameters), (8 * Scale) \div 10)),
     w2Min |-> Centi,
     w2Max |-> MaxW1(parameters) * 2,
     centerW1 |-> Times(MaxW1(parameters), (6 * Scale) \div 10),
     centerW2 |-> Times(MaxW1(parameters), (5 * Scale) \div 10)]

\* the limit of Math.min(gridSteps, 50): half of the default gridSteps
WorkerStepLimit == 1

\* w1Min + (w1Max - w1Min) * i / steps
WorkerGridPoint(lo, hi, i, steps) ==
    IF lo = NaN \/ hi = NaN THEN NaN ELSE lo + ((hi - lo) * i) \div steps

RECURSIVE WorkerGridLoop(_, _, _, _, _)
WorkerGridLoop(parameters, space, steps, k, best) ==
    IF k = (steps + 1) * (steps + 1) THEN best
    ELSE Bind(GridVisit(parameters,
                        WorkerGridPoint(space.w1Min, space.w1Max,
                                        k \div (steps + 1), steps),
                        WorkerGridPoint(space.w2Min, space.w2Max,
                                        k % (steps + 1), steps),
                        best),
              LAMBDA next :
                  IF next.evaluations > k
                    THEN WorkerGridLoop(parameters, space, steps, k + 1, next)
                    ELSE next)

performGridSearch(parameters, searchSpace, gridSteps) ==
    GridResult(WorkerGridLoop(parameters, searchSpace,
                              Min2(gridSteps, WorkerStepLimit), 0,
                              GridStart(searchSpace)))

\* optimizeWealth in the worker after a successful grid search, as
\* performOptimization hands it on
workerOptimizeWealth(parameters, gridResult, choice) ==
    Packaged(numericalRefinement(parameters, gridResult, choice))

(***************************************************************************)
(* Result cache                                                            *)
(***************************************************************************)
\* Math.round(value * 1000) / 1000
RoundMilli(value) == ((value + Milli \div 2) \div Milli) * Milli

\* the rounded value of a field (t1 and t2 are whole numbers already)
Rounded(name, value) ==
    IF name \in {"t1", "t2"} THEN value ELSE RoundMilli(value)

\* generateCacheKey: JSON.stringify of the rounded object, a string that
\* lists the names and the rounded values in the order of Object.entries,
\* which is the order the fields were put on the object
generateCacheKey(parameters) ==
    [i \in DOMAIN parameters.order |->
        <<parameters.order[i],
          Rounded(parameters.order[i], parameters[parameters.order[i]])>>]

\* Map.delete and Map.set
MapDelete(map, key) == [k \in (DOMAIN map) \ {key} |-> map[k]]

MapSet(map, key, value) ==
    [k \in (DOMAIN map) \cup {key} |-> IF k = key THEN value ELSE map[k]]

\* Array.indexOf (0 when absent) and splice(index, 1)
IndexOf(seq, key) ==
    IF \E i \in 1..Len(seq) : seq[i] = key
      THEN CHOOSE i \in 1..Len(seq) :
               seq[i] = key /\ \A j \in 1..(i - 1) : seq[j] # key
      ELSE 0

RemoveAt(seq, index) ==
    [i \in 1..(Len(seq) - 1) |-> IF i < index THEN seq[i] ELSE seq[i + 1]]

\* variant: an entry expires as soon as its age reaches the TTL
ExpiredAtTTL(entry, t) == t - entry.timestamp >= CacheTTL

\* the entry is expired at time t
Expired(entry, t) == t - entry.timestamp > CacheTTL

\* variant: a lookup that never finds anything
getFromCacheBlind(map, order, t, key) ==
    [result |-> Null, cache |-> map, cacheOrder |-> order]

\* variant: an expired key leaves cacheOrder too
getFromCacheTidy(map, order, t, key) ==
    IF key \notin DOMAIN map
      THEN [result |-> Null, cache |-> map, cacheOrder |-> order]
    ELSE IF Expired(map[key], t)
      THEN [result |-> Null, cache |-> MapDelete(map, key),
            cacheOrder |-> RemoveAt(order, IndexOf(order, key))]
    ELSE [result |-> Some(map[key].result),
          cache |-> map,
          cacheOrder |-> <<key>> \o RemoveAt(order, IndexOf(order, key))]

\* getFromCache: [result, cache, cacheOrder] with result Null on a miss
getFromCache(map, order, t, key) ==
    IF key \notin DOMAIN map
      THEN [result |-> Null, cache |-> map, cacheOrder |-> order]
    ELSE IF Expired(map[key], t)
      THEN [result |-> Null, cache |-> MapDelete(map, key), cacheOrder |-> order]
    ELSE [result |-> Some(map[key].result),
          cache |-> map,
          cacheOrder |-> <<key>> \o (IF IndexOf(order, key) > 0
                                       THEN RemoveAt(order, IndexOf(order, key))
                                       ELSE order)]

\* the while loop of addToCache: pop and delete until there is room
RECURSIVE EvictOldest(_, _)
EvictOldest(map, order) ==
    IF Len(order) >= CacheSize
      THEN EvictOldest(MapDelete(map, order[Len(order)]),
                       SubSeq(order, 1, Len(order) - 1))
      ELSE [cache |-> map, cacheOrder |-> order]

\* variant: the entry is stored without the result of the run
InsertedBlank(room, t, key, result) ==
    [cache |-> MapSet(room.cache, key, [result |-> NoResult, timestamp |-> t]),
     cacheOrder |-> <<key>> \o room.cacheOrder]

\* cache.set and cacheOrder.unshift once there is room
Inserted(room, t, key, result) ==
    [cache |-> MapSet(room.cache, key, [result |-> result, timestamp |-> t]),
     cacheOrder |-> <<key>> \o room.cacheOrder]

\* variant: the entry is added without making room first
addToCacheUnbounded(map, order, t, key, result) ==
    Inserted([cache |-> map, cacheOrder |-> order], t, key, result)

\* addToCache
addToCache(map, order, t, key, result) ==
    Inserted(EvictOldest(map, order), t, key, result)

\* variant: the slot keeps the parameters but not the point
updateWarmStartPointless(parameters, result) ==
    [lastOptimalResult |-> Null, lastParameters |-> Some(parameters)]

\* updateWarmStart
updateWarmStart(parameters, result) ==
    [lastOptimalResult |-> Some([w1 |-> result.w1, w2 |-> result.w2]),
     lastParameters |-> Some(parameters)]

(***************************************************************************)
(* Operations                                                              *)
(***************************************************************************)
\* Objects.  An object is known by the expression that made it: the
\* caller's parameters object, the result object performOptimization
\* built, the object in a cache entry, or an object made by a literal or a
\* spread at one place of the code, which nothing else refers to.
NewObject(place) == <<"new", place>>

\* an object that was there before: "parameters", "result" or "entry"
Object(name) == <<name>>

\* variant: this.lastParameters = parameters
HintParametersShared(parameters) == parameters

\* result: { ...result } in addToCache
CacheEntryObject(result) == NewObject("addToCache")

\* this.lastOptimalResult = { w1: result.w1, w2: result.w2 }
HintObject(result) == NewObject("lastOptimalResult")

\* this.lastParameters = { ...parameters }
HintParametersObject(parameters) == NewObject("lastParameters")

\* return { ...result, cacheHit: false }
ReturnedOnMiss(result) == NewObject("miss")

\* return { ...cached, cacheHit: true }
ReturnedOnHit(cached) == NewObject("hit")

\* the places of the service that refer to an object the caller holds
\* after a hit (the entry and the slot were written by earlier calls)
SharedOnHit ==
    {place \in {"cache"} :
        Object("entry") \in {ReturnedOnHit(Object("entry")), Object("parameters")}}

\* the same after a miss
SharedOnMiss ==
    {place \in {"cache", "lastOptimalResult", "lastParameters"} :
        (CASE place = "cache" -> CacheEntryObject(Object("result"))
           [] place = "lastOptimalResult" -> HintObject(Object("result"))
           [] OTHER -> HintParametersObject(Object("parameters")))
            \in {ReturnedOnMiss(Object("result")), Object("parameters")}}

NoCall ==
    [kind |-> "none", parameters |-> Null, key |-> Null,
     result |-> NoResult, cacheHit |-> FALSE,
     searchSpace |-> Null, gridResult |-> Null, shared |-> {},
     worker |-> "unused"]

\* the keys of seq that are in keys, in the order of seq
Restrict(seq, keys) ==
    LET Keep(k) == k \in keys
    IN  SelectSeq(seq, Keep)

\* key becomes the most recently used of the keys of map
Touch(seq, key, map) ==
    LET Other(k) == k \in DOMAIN map /\ k # key
    IN  <<key>> \o SelectSeq(seq, Other)

\* no call is suspended, none has been left unawaited
NoneInFlight ==
    [base |-> Null, called |-> {}, overlapped |-> FALSE, pending |-> <<>>,
     returned |-> {}]

\* new WorkerManager(): no pool, no job
NewManager ==
    [isInitialized |-> FALSE, workers |-> <<>>, info |-> <<>>,
     activeJobs |-> {}, jobQueue |-> <<>>, nextJobId |-> 1,
     settled |-> <<>>, crashes |-> 0]

\* ApplicationState.getDefaultState(): the fields of the state object that
\* the calculation reads and writes
getDefaultState ==
    [parameters |-> DefaultParameters,
     visualizationType |-> "Wealth Trajectory",
     isCalculating |-> FALSE,
     needsRecalculation |-> TRUE,
     lastOptimizationResult |-> Null,
     errors |-> <<>>]

\* new Application() on a new ApplicationState(): no listener, no timer
\* (calculationThrottle is 0 for null, timer handles are positive), no
\* calculation in progress; timers holds the setTimeout callbacks that
\* have not run, performed counts the performCalculation calls, running is
\* the performCalculation call that waits for findOptimalWealth and
\* finished the one that returned in the task that ran last
NewApplication ==
    [isInitialized |-> FALSE, state |-> getDefaultState,
     calculationThrottle |-> 0, timers |-> {}, nextTimer |-> 1,
     running |-> Null, performed |-> 0, finished |-> Null]

\* no generateTaxEffectTable call has been made
NoTable ==
    [state |-> "not called", parameters |-> Null, data |-> <<>>,
     effects |-> Null]

\* useWebWorkers: false, fallbackToMainThread: true
DefaultOptions == [useWebWorkers |-> FALSE, fallbackToMainThread |-> TRUE]

Init ==
    /\ cache = <<>>
    /\ cacheOrder = <<>>
    /\ lastOptimalResult = Null
    /\ lastParameters = Null
    /\ warmStartEnabled \in BOOLEAN
    /\ workerOptions = DefaultOptions
    /\ taxTable = NoTable
    /\ inFlight = NoneInFlight
    /\ manager = NewManager
    /\ app = NewApplication
    /\ now = 0
    /\ ret = NoCall
    /\ recency = <<>>
    /\ calls = 0

\* validateParametersOrThrow threw a ValidationError
Refused(parameters) ==
    /\ ret' = [NoCall EXCEPT !.kind = "invalid", !.parameters = Some(parameters)]
    /\ UNCHANGED <<cache, cacheOrder, lastOptimalResult, lastParameters,
                   warmStartEnabled, workerOptions, taxTable, inFlight,
                   manager, app, now, recency>>

\* return { ...cached, cacheHit: true }
ServedFromCache(parameters, cacheKey, cached) ==
    /\ cache' = cached.cache
    /\ cacheOrder' = cached.cacheOrder
    /\ recency' = Touch(recency, cacheKey, cached.cache)
    /\ ret' = [NoCall EXCEPT !.kind = "hit",
                             !.parameters = Some(parameters),
                             !.key = Some(cacheKey),
                             !.result = cached.result[1],
                             !.cacheHit = TRUE,
                             !.shared = SharedOnHit]
    /\ UNCHANGED <<lastOptimalResult, lastParameters, warmStartEnabled,
                   workerOptions, taxTable, inFlight, manager, app, now>>

\* addToCache, updateWarmStart, return { ...result, cacheHit: false }
Stored(parameters, cacheKey, added, warm, searchSpace, gridResult, result, worker) ==
    /\ cache' = added.cache
    /\ cacheOrder' = added.cacheOrder
    /\ lastOptimalResult' = warm.lastOptimalResult
    /\ lastParameters' = warm.lastParameters
    /\ recency' = Touch(recency, cacheKey, added.cache)
    /\ ret' = [kind |-> "miss", parameters |-> Some(parameters),
               key |-> Some(cacheKey), result |-> result,
               cacheHit |-> FALSE,
               searchSpace |-> Some(searchSpace),
               gridResult |-> Some(gridResult),
               shared |-> SharedOnMiss,
               worker |-> worker]
    /\ UNCHANGED <<warmStartEnabled, workerOptions, taxTable, inFlight,
                   manager, app, now>>

\* the catch block: throw new OptimizationError(...)
Failed(parameters, cacheKey, cached, searchSpace, gridResult, worker) ==
    /\ cache' = cached.cache
    /\ cacheOrder' = cached.cacheOrder
    /\ recency' = Restrict(recency, DOMAIN cached.cache)
    /\ ret' = [NoCall EXCEPT !.kind = "failed",
                             !.parameters = Some(parameters),
                             !.key = Some(cacheKey),
                             !.searchSpace = Some(searchSpace),
                             !.gridResult = Some(gridResult),
                             !.worker = worker]
    /\ UNCHANGED <<lastOptimalResult, lastParameters, warmStartEnabled,
                   workerOptions, taxTable, inFlight, manager, app, now>>

\* the try block after a successful grid search
Optimized(parameters, cacheKey, cached, searchSpace, gridResult, result, worker) ==
    Stored(parameters, cacheKey,
           addToCache(cached.cache, cached.cacheOrder, now, cacheKey, result),
           updateWarmStart(parameters, result),
           searchSpace, gridResult, result, worker)

\* the try block of findOptimalWealth after the grid search
Searched(parameters, cacheKey, cached, searchSpace, gridResult, worker) ==
    IF ~gridResult.success
      THEN Failed(parameters, cacheKey, cached, searchSpace, gridResult, worker)
      ELSE \E choice \in MinimizerChoices :
           \E result \in {performMainThreadOptimization(parameters, gridResult,
                                                         choice)} :
               Optimized(parameters, cacheKey, cached, searchSpace, gridResult,
                         result, worker)

\* result = await this.performMainThreadOptimization(parameters), after a
\* worker that was not used or that failed as worker says
OnMainThread(parameters, cacheKey, cached, worker) ==
    \E searchSpace \in {determineSearchSpace(parameters, warmStartEnabled,
                              lastOptimalResult, lastParameters)} :
    \E gridResult \in {gridSearch(parameters, searchSpace)} :
        Searched(parameters, cacheKey, cached, searchSpace, gridResult, worker)

\* throw workerError: the error of the worker reaches the caller
WorkerErrorThrown(parameters, cacheKey, cached, worker) ==
    /\ cache' = cached.cache
    /\ cacheOrder' = cached.cacheOrder
    /\ recency' = Restrict(recency, DOMAIN cached.cache)
    /\ ret' = [NoCall EXCEPT !.kind = "worker failed",
                             !.parameters = Some(parameters),
                             !.key = Some(cacheKey),
                             !.worker = worker]
    /\ UNCHANGED <<lastOptimalResult, lastParameters, warmStartEnabled,
                   workerOptions, taxTable, inFlight, manager, app, now>>

\* variant: the worker's error is thrown whatever fallbackToMainThread is
WorkerFailedNoFallback(parameters, cacheKey, cached, worker) ==
    WorkerErrorThrown(parameters, cacheKey, cached, worker)

\* catch (workerError)
WorkerFailed(parameters, cacheKey, cached, worker) ==
    IF workerOptions.fallbackToMainThread
      THEN OnMainThread(parameters, cacheKey, cached, worker)
      ELSE WorkerErrorThrown(parameters, cacheKey, cached, worker)

\* the worker's message: the result of optimizeWealth, or the error it threw
WorkerAnswered(parameters, cacheKey, cached, searchSpace, gridResult) ==
    IF ~gridResult.success
      THEN WorkerFailed(parameters, cacheKey, cached, "error")
      ELSE \E choice \in MinimizerChoices :
           \E result \in {workerOptimizeWealth(parameters, gridResult, choice)} :
               Optimized(parameters, cacheKey, cached, searchSpace, gridResult,
                         result, "result")

\* what becomes of the job: the worker answers, the worker crashes (or the
\* message cannot be posted, or the pool cannot be started), or the job
\* times out
WorkerFates == {"answers", "crashes", "times out"}

\* result = await workerManager.optimizeWealth(parameters, {gridSteps, ...})
OnWorker(parameters, cacheKey, cached) ==
    \E fate \in WorkerFates :
        CASE fate = "answers" ->
                 \E searchSpace \in {WorkerSearchSpace(parameters)} :
                 \E gridResult \in {performGridSearch(parameters, searchSpace,
                                                      GridSteps)} :
                     WorkerAnswered(parameters, cacheKey, cached, searchSpace,
                                    gridResult)
          [] fate = "crashes" ->
                 WorkerFailed(parameters, cacheKey, cached, "crashed")
          [] OTHER ->
                 WorkerFailed(parameters, cacheKey, cached, "timeout")

\* findOptimalWealth after validation
Looked(parameters, cacheKey, cached) ==
    IF cached.result # Null
      THEN ServedFromCache(parameters, cacheKey, cached)
      ELSE IF workerOptions.useWebWorkers
             THEN OnWorker(parameters, cacheKey, cached)
             ELSE OnMainThread(parameters, cacheKey, cached, "unused")

\* variant: the parameters are validated after the cache has been asked
FindOptimalWealthLate(parameters) ==
    /\ calls' = calls + 1
    /\ \E cacheKey \in {generateCacheKey(parameters)} :
       \E cached \in {getFromCache(cache, cacheOrder, now, cacheKey)} :
           IF ~ValidParameters(parameters)
             THEN /\ cache' = cached.cache
                  /\ cacheOrder' = cached.cacheOrder
                  /\ recency' = Restrict(recency, DOMAIN cached.cache)
                  /\ ret' = [NoCall EXCEPT !.kind = "invalid",
                                           !.parameters = Some(parameters)]
                  /\ UNCHANGED <<lastOptimalResult, lastParameters,
                                 warmStartEnabled, workerOptions, taxTable,
                                 inFlight, manager, app, now>>
             ELSE Looked(parameters, cacheKey, cached)

\* findOptimalWealth(parameters)
FindOptimalWealth(parameters) ==
    /\ calls' = calls + 1
    /\ IF ~ValidParameters(parameters)
         THEN Refused(parameters)
         ELSE \E cacheKey \in {generateCacheKey(parameters)} :
              \E cached \in {getFromCache(cache, cacheOrder, now, cacheKey)} :
                  Looked(parameters, cacheKey, cached)

\* clearCache()
ClearCache ==
    /\ cache' = <<>>
    /\ cacheOrder' = <<>>
    /\ recency' = <<>>
    /\ ret' = NoCall
    /\ UNCHANGED <<calls, lastOptimalResult, lastParameters,
                   warmStartEnabled, workerOptions, taxTable, inFlight,
                   manager, app, now>>

\* resetWarmStart()
ResetWarmStart ==
    /\ lastOptimalResult' = Null
    /\ lastParameters' = Null
    /\ ret' = NoCall
    /\ UNCHANGED <<calls, cache, cacheOrder, warmStartEnabled, workerOptions,
                   taxTable, inFlight, manager, app, now, recency>>

\* time passes between calls
Tick ==
    /\ now < MaxTime
    /\ now' = now + 1
    /\ ret' = NoCall
    /\ UNCHANGED <<calls, cache, cacheOrder, lastOptimalResult,
                   lastParameters,
                   warmStartEnabled, workerOptions, taxTable, inFlight,
                   manager, app, recency>>

\* the page at its defaults and with one slider moved, parameters the
\* validator refuses included
CacheWorkload ==
    {DefaultParameters, NudgedParameters, LowGammaParameters, InvalidParameters}

Next ==
    \/ \E parameters \in CacheWorkload :
           calls < MaxCalls /\ FindOptimalWealth(parameters)
    \/ ClearCache
    \/ Tick

Spec == Init /\ [][Next]_vars

\* three parameter sets with three different cache keys, no two of them
\* similar, called one time more than the cache has room for, on a service
\* built with the default options
LruWorkload ==
    {DefaultParameters, LowGammaParameters, HighTaxLongParameters}

InitLru == Init /\ warmStartEnabled

NextLru ==
    \/ \E parameters \in LruWorkload :
           calls <= CacheSize /\ FindOptimalWealth(parameters)
    \/ Tick

SpecLru == InitLru /\ [][NextLru]_vars

\* two similar parameter sets, one of them with no feasible point in the
\* cold box, and a set that is similar to neither
WarmWorkload ==
    {LowGammaParameters, HighTaxLongParameters, HighTaxShortParameters}

NextWarm ==
    \/ \E parameters \in WarmWorkload :
           calls < MaxCalls /\ FindOptimalWealth(parameters)
    \/ ClearCache
    \/ ResetWarmStart
    \/ Tick

SpecWarm == Init /\ [][NextWarm]_vars

\* the first phase of performMainThreadOptimization on its own: the search
\* box and the grid search, for each warm-start slot a call can have left.
\* The slot holds the parameters of a call and a point that passes
\* checkConstraints under them.
GridWorkload ==
    {DefaultParameters, NudgedParameters, LowGammaParameters,
     HighTaxLongParameters, HighTaxShortParameters}

HintCoordinates(parameters) ==
    {Centi \div 2, MulS(MaxW1(parameters), (3 * Scale) \div 10),
     MulS(MaxW1(parameters), (9 * Scale) \div 10), NaN}

WarmStartSlots ==
    {[lastOptimalResult |-> Null, lastParameters |-> Null]}
    \cup {updateWarmStart(parameters, [w1 |-> w1, w2 |-> w2]) :
              <<parameters, w1, w2>> \in
                  {x \in UNION {{p} \X HintCoordinates(p) \X HintCoordinates(p) :
                                    p \in GridWorkload} :
                      checkConstraints(x[2], x[3], x[1])}}

InitGrid ==
    /\ cache = <<>>
    /\ cacheOrder = <<>>
    /\ \E slot \in WarmStartSlots :
           /\ lastOptimalResult = slot.lastOptimalResult
           /\ lastParameters = slot.lastParameters
    /\ warmStartEnabled \in BOOLEAN
    /\ workerOptions = DefaultOptions
    /\ taxTable = NoTable
    /\ inFlight = NoneInFlight
    /\ manager = NewManager
    /\ app = NewApplication
    /\ now = 0
    /\ ret = NoCall
    /\ recency = <<>>
    /\ calls = 0

\* determineSearchSpace and gridSearch as performMainThreadOptimization
\* calls them
GridSearchStep(parameters) ==
    /\ calls' = calls + 1
    /\ \E searchSpace \in {determineSearchSpace(parameters, warmStartEnabled,
                                  lastOptimalResult, lastParameters)} :
           ret' = [NoCall EXCEPT !.kind = "searched",
                                 !.parameters = Some(parameters),
                                 !.searchSpace = Some(searchSpace),
                                 !.gridResult = Some(gridSearch(parameters,
                                                                searchSpace))]
    /\ UNCHANGED <<cache, cacheOrder, lastOptimalResult, lastParameters,
                   warmStartEnabled, workerOptions, taxTable, inFlight,
                   manager, app, now, recency>>

NextGrid ==
    \E parameters \in GridWorkload :
        calls = 0 /\ GridSearchStep(parameters)

SpecGrid == InitGrid /\ [][NextGrid]_vars

\* isParameterSimilar on its own: the parameters of a call against the
\* parameters in the warm-start slot.  Each set is the defaults with one
\* field moved: to 90% of its default, to just below 90%, to zero where
\* the validator allows zero, or, for the tax rate (default 0), to values
\* 10% and just over 10% apart; t1, t2 and w0 are moved far.
FieldValues(field) ==
    CASE field = "tau" -> {0, 1, (9 * Scale) \div 100, (9 * Scale) \div 100 - 1,
                           Scale \div 10}
      [] field = "beta" -> {0, (27 * Scale) \div 10, (27 * Scale) \div 10 - 1}
      [] field \in {"t1", "t2"} -> {40}
      [] field = "w0" -> {5 * Scale}
      [] OTHER -> {(9 * DefaultParameters[field]) \div 10,
                   (9 * DefaultParameters[field]) \div 10 - 1}

\* the centre of the cold box, a point a call for parameters can return
ColdCentre(parameters) ==
    [w1 |-> ColdBox(MaxW1(parameters)).centerW1,
     w2 |-> ColdBox(MaxW1(parameters)).centerW2]

SimilarityWorkload ==
    {parameters \in
         {DefaultParameters}
         \cup UNION {{[DefaultParameters EXCEPT ![field] = v] :
                         v \in FieldValues(field)} :
                        field \in {FieldOrder[i] : i \in DOMAIN FieldOrder}} :
        ValidParameters(parameters)}

InitSimilar ==
    /\ cache = <<>>
    /\ cacheOrder = <<>>
    /\ \E slot \in {[lastOptimalResult |-> Null, lastParameters |-> Null]}
                    \cup {updateWarmStart(parameters,
                                          ColdCentre(parameters)) :
                              parameters \in SimilarityWorkload} :
           /\ lastOptimalResult = slot.lastOptimalResult
           /\ lastParameters = slot.lastParameters
    /\ warmStartEnabled = TRUE
    /\ workerOptions = DefaultOptions
    /\ taxTable = NoTable
    /\ inFlight = NoneInFlight
    /\ manager = NewManager
    /\ app = NewApplication
    /\ now = 0
    /\ ret = NoCall
    /\ recency = <<>>
    /\ calls = 0

\* this.isParameterSimilar(parameters, this.lastParameters)
IsParameterSimilarStep(parameters) ==
    /\ calls' = calls + 1
    /\ ret' = [NoCall EXCEPT !.kind = IF isParameterSimilar(parameters,
                                                            lastParameters)
                                        THEN "similar"
                                        ELSE "different",
                             !.parameters = Some(parameters)]
    /\ UNCHANGED <<cache, cacheOrder, lastOptimalResult, lastParameters,
                   warmStartEnabled, workerOptions, taxTable, inFlight,
                   manager, app, now, recency>>

NextSimilar ==
    \E parameters \in SimilarityWorkload :
        calls = 0 /\ IsParameterSimilarStep(parameters)

SpecSimilar == InitSimilar /\ [][NextSimilar]_vars

\* generateCacheKey on its own: the key of the parameters of a call against
\* the key of the parameters in the warm-start slot.  The objects are the
\* defaults, the defaults with w0 or tau moved by less and by more than the
\* rounding keeps, each with its fields in the order of DEFAULT_PARAMETERS
\* and with tau put on the object last.
TaxLastOrder == <<"r", "rho", "gamma", "eta", "beta", "t1", "t2", "w0", "tau">>

KeyWorkload ==
    {[parameters EXCEPT !.order = order] :
        <<parameters, order>> \in
            {DefaultParameters, NudgedParameters,
             [DefaultParameters EXCEPT !.w0 = Scale + (6 * Scale) \div 10000],
             [DefaultParameters EXCEPT !.tau = (4 * Scale) \div 10000],
             [DefaultParameters EXCEPT !.tau = Scale \div 1000],
             [DefaultParameters EXCEPT !.t2 = 26]}
            \X {FieldOrder, TaxLastOrder}}

InitKey ==
    /\ cache = <<>>
    /\ cacheOrder = <<>>
    /\ \E slot \in {[lastOptimalResult |-> Null, lastParameters |-> Null]}
                    \cup {updateWarmStart(parameters,
                                          ColdCentre(parameters)) :
                              parameters \in KeyWorkload} :
           /\ lastOptimalResult = slot.lastOptimalResult
           /\ lastParameters = slot.lastParameters
    /\ warmStartEnabled = TRUE
    /\ workerOptions = DefaultOptions
    /\ taxTable = NoTable
    /\ inFlight = NoneInFlight
    /\ manager = NewManager
    /\ app = NewApplication
    /\ now = 0
    /\ ret = NoCall
    /\ recency = <<>>
    /\ calls = 0

\* const cacheKey = this.generateCacheKey(parameters)
GenerateCacheKeyStep(parameters) ==
    /\ calls' = calls + 1
    /\ ret' = [NoCall EXCEPT !.kind = "keyed",
                             !.parameters = Some(parameters),
                             !.key = Some(generateCacheKey(parameters))]
    /\ UNCHANGED <<cache, cacheOrder, lastOptimalResult, lastParameters,
                   warmStartEnabled, workerOptions, taxTable, inFlight,
                   manager, app, now, recency>>

NextKey ==
    \E parameters \in KeyWorkload :
        calls = 0 /\ GenerateCacheKeyStep(parameters)

SpecKey == InitKey /\ [][NextKey]_vars

\* lifetimeUtility on its own, as the grid search and the minimizer's
\* objective function call it: for validated parameters, for parameters
\* with gamma = 0 or a period of no length, and for a point with
\* coordinates below zero, at zero, inside and beyond the constraints,
\* infinite or NaN
HighGammaParameters == [DefaultParameters EXCEPT !.gamma = (17 * Scale) \div 10]

UtilityWorkload ==
    {DefaultParameters, LowGammaParameters, HighGammaParameters,
     HighTaxShortParameters,
     [DefaultParameters EXCEPT !.gamma = 0],
     [DefaultParameters EXCEPT !.t1 = 0],
     [DefaultParameters EXCEPT !.t2 = 0]}

UtilityCoordinates(parameters) ==
    {NegInfinity, -Scale, 0, Centi,
     MulS(MaxW1(parameters), (36 * Scale) \div 100),
     MaxW1(parameters), 5 * MaxW1(parameters), Saturated, NaN}

\* const utility = lifetimeUtility(r, rho, gamma, t1, t2, beta, eta, tau, w0, w1, w2)
LifetimeUtilityStep(parameters, w1, w2) ==
    /\ calls' = calls + 1
    /\ ret' = [NoCall EXCEPT !.kind = "utility",
                             !.parameters = Some(parameters),
                             !.result = [NoResult EXCEPT
                                            !.w1 = w1, !.w2 = w2,
                                            !.utility = Utility(parameters, w1, w2)]]
    /\ UNCHANGED <<cache, cacheOrder, lastOptimalResult, lastParameters,
                   warmStartEnabled, workerOptions, taxTable, inFlight,
                   manager, app, now, recency>>

NextUtility ==
    \E parameters \in UtilityWorkload :
        \E w1 \in UtilityCoordinates(parameters) :
            \E w2 \in UtilityCoordinates(parameters) :
                calls = 0 /\ LifetimeUtilityStep(parameters, w1, w2)

SpecUtility == Init /\ [][NextUtility]_vars

\* checkConstraints on its own, as determineSearchSpace, the grid search,
\* the objective function and numericalRefinement call it: w1 on, one unit
\* inside and one unit outside each of its two boundaries, in between and
\* NaN, and w2 the same for the boundaries that w1 gives it
ConstraintWorkload ==
    {DefaultParameters, LowGammaParameters, HighGammaParameters,
     HighTaxLongParameters, HighTaxShortParameters}

\* maxW2 = w1 * (1 - tau) * Math.exp(r * t2)
MaxW2(parameters, w1) ==
    Times(Times(w1, Scale - parameters.tau), Exp(parameters.r * parameters.t2))

BoundaryCoordinates(upper) ==
    IF upper = NaN THEN {0, 1, NaN}
    ELSE {-1, 0, 1, upper \div 2, upper - 1, upper, upper + 1, NaN}

\* checkConstraints(w1, w2, parameters)
CheckConstraintsStep(parameters, w1, w2) ==
    /\ calls' = calls + 1
    /\ ret' = [NoCall EXCEPT !.kind = IF checkConstraints(w1, w2, parameters)
                                        THEN "inside"
                                        ELSE "outside",
                             !.parameters = Some(parameters),
                             !.result = [NoResult EXCEPT !.w1 = w1, !.w2 = w2]]
    /\ UNCHANGED <<cache, cacheOrder, lastOptimalResult, lastParameters,
                   warmStartEnabled, workerOptions, taxTable, inFlight,
                   manager, app, now, recency>>

NextConstraints ==
    \E parameters \in ConstraintWorkload :
        \E w1 \in BoundaryCoordinates(MaxW1(parameters)) :
            \E w2 \in BoundaryCoordinates(MaxW2(parameters, w1)) :
                calls = 0 /\ CheckConstraintsStep(parameters, w1, w2)

SpecConstraints == Init /\ [][NextConstraints]_vars

\* calls with parameters the validator refuses, between calls it accepts:
\* r barely above rho, and refused, r barely below rho with the same
\* rounded values and so the same cache key, a lifetime of more than 120
\* years, a first period of less than 5 years, and gamma and eta at
\* exactly 1
BarelyValidParameters ==
    [DefaultParameters EXCEPT !.r = (404 * Scale) \div 10000,
                              !.rho = (401 * Scale) \div 10000]

RefusedWorkload ==
    {[DefaultParameters EXCEPT !.r = (401 * Scale) \div 10000,
                               !.rho = (404 * Scale) \div 10000],
     [DefaultParameters EXCEPT !.t1 = 100],
     [DefaultParameters EXCEPT !.t1 = 4],
     [DefaultParameters EXCEPT !.gamma = Scale],
     [DefaultParameters EXCEPT !.eta = Scale]}

NextRefused ==
    \/ \E parameters \in {DefaultParameters, BarelyValidParameters}
                             \cup RefusedWorkload :
           calls < MaxCalls /\ FindOptimalWealth(parameters)
    \/ Tick

SpecRefused == InitLru /\ [][NextRefused]_vars

\* callers that write to the objects they hold after a call: the result
\* they were given gets a w1 and a w2 of -1, their parameters object a tax
\* rate of 50%.  A place of the service that refers to the same object
\* sees the write.
Overwritten(result) == [result EXCEPT !.w1 = -Scale, !.w2 = -Scale]

Retaxed(parameters) == [parameters EXCEPT !.tau = Scale \div 2]

\* result.w1 = -1; result.w2 = -1
MutateResult ==
    /\ ret.kind \in {"hit", "miss"}
    /\ ret' = [ret EXCEPT !.kind = "result written", !.result = Overwritten(@)]
    /\ cache' = IF "cache" \in ret.shared
                  THEN [cache EXCEPT ![ret.key[1]].result = Overwritten(@)]
                  ELSE cache
    /\ lastOptimalResult' = IF "lastOptimalResult" \in ret.shared
                              THEN Some(Overwritten(lastOptimalResult[1]))
                              ELSE lastOptimalResult
    /\ UNCHANGED <<calls, cacheOrder, lastParameters, warmStartEnabled,
                   workerOptions, taxTable, inFlight, manager, app, now,
                   recency>>

\* parameters.tau = 0.5
MutateParameters ==
    /\ ret.kind \in {"hit", "miss"}
    /\ ret' = [ret EXCEPT !.kind = "parameters written",
                          !.parameters = Some(Retaxed(@[1]))]
    /\ lastParameters' = IF "lastParameters" \in ret.shared
                           THEN Some(Retaxed(lastParameters[1]))
                           ELSE lastParameters
    /\ UNCHANGED <<calls, cache, cacheOrder, lastOptimalResult,
                   warmStartEnabled, workerOptions, taxTable, inFlight,
                   manager, app, now, recency>>

NextAlias ==
    \/ \E parameters \in {DefaultParameters, LowGammaParameters} :
           calls < MaxCalls /\ FindOptimalWealth(parameters)
    \/ MutateResult
    \/ MutateParameters
    \/ Tick

SpecAlias == InitLru /\ [][NextAlias]_vars

\* Application.reset() between calls for the defaults and for the defaults
\* with a second period one year longer: two parameter sets that are
\* similar and have different cache keys, and a feasible grid sample in
\* the cold and in the warm box
LongerLifeParameters == [DefaultParameters EXCEPT !.t2 = 26]

\* variant: reset() forgets the cache and keeps the warm-start slot
ResetCacheOnly ==
    /\ cache' = <<>>
    /\ cacheOrder' = <<>>
    /\ recency' = <<>>
    /\ ret' = [NoCall EXCEPT !.kind = "reset"]
    /\ UNCHANGED <<calls, lastOptimalResult, lastParameters,
                   warmStartEnabled, workerOptions, taxTable, inFlight,
                   manager, app, now>>

\* Application.reset(): optimizationService.clearCache();
\* optimizationService.resetWarmStart()
Reset ==
    /\ cache' = <<>>
    /\ cacheOrder' = <<>>
    /\ recency' = <<>>
    /\ lastOptimalResult' = Null
    /\ lastParameters' = Null
    /\ ret' = [NoCall EXCEPT !.kind = "reset"]
    /\ UNCHANGED <<calls, warmStartEnabled, workerOptions, taxTable,
                   inFlight, manager, app, now>>

NextReset ==
    \/ \E parameters \in {DefaultParameters, LongerLifeParameters} :
           calls < MaxCalls /\ FindOptimalWealth(parameters)
    \/ Reset
    \/ Tick

SpecReset == InitLru /\ [][NextReset]_vars

\* a service built with useWebWorkers: true, with and without the fallback
\* to the main thread
InitWorker ==
    /\ cache = <<>>
    /\ cacheOrder = <<>>
    /\ lastOptimalResult = Null
    /\ lastParameters = Null
    /\ warmStartEnabled = TRUE
    /\ workerOptions \in {[useWebWorkers |-> TRUE, fallbackToMainThread |-> fallback] :
                             fallback \in BOOLEAN}
    /\ taxTable = NoTable
    /\ inFlight = NoneInFlight
    /\ manager = NewManager
    /\ app = NewApplication
    /\ now = 0
    /\ ret = NoCall
    /\ recency = <<>>
    /\ calls = 0

\* two similar parameter sets with different keys: for the one with the
\* short second period the main thread's cold box holds no feasible sample
NextWorker ==
    \E parameters \in {HighTaxLongParameters, HighTaxShortParameters} :
        calls < MaxCalls /\ FindOptimalWealth(parameters)

SpecWorker == InitWorker /\ [][NextWorker]_vars

\* one parameter set more than the cache has room for, each with a cache key
\* of its own and no two of them similar: every call asks for the next one
\* of them or for the first one again, until the cache has been filled and
\* one more run has been put
FullSequence ==
    <<DefaultParameters, LowGammaParameters, HighTaxLongParameters,
      BarelyValidParameters>>

FullWorkload == {FullSequence[i] : i \in DOMAIN FullSequence}

NextFull ==
    \/ \E parameters \in {FullSequence[1],
                          FullSequence[Min2(calls + 1, Len(FullSequence))]} :
           calls < Len(FullSequence) /\ FindOptimalWealth(parameters)
    \/ Tick

\* a service built with warm starts switched off
InitFull == Init /\ ~warmStartEnabled

SpecFull == InitFull /\ [][NextFull]_vars

\* calls that are not awaited.  findOptimalWealth runs without interruption
\* from its entry to the await of gridSearch (validation, the cache lookup,
\* determineSearchSpace and the grid loop have no await), and from there,
\* once it is resumed, to its return (the refinement, addToCache and
\* updateWarmStart): nothing of the service is read or written between the
\* awaits that follow the first one.  Two callers make one call each, the
\* second without waiting for the first to return or after it has returned.
Callers == {"first", "second"}

OverlapWorkload ==
    {DefaultParameters, NudgedParameters, LongerLifeParameters}

\* the fields of the service that its calls share
Service ==
    [cache |-> cache, cacheOrder |-> cacheOrder,
     lastOptimalResult |-> lastOptimalResult,
     lastParameters |-> lastParameters]

\* findOptimalWealth from its entry to its return on a hit or to the await
\* of a miss, at time t on the service
Begun(service, t, parameters) ==
    Bind(generateCacheKey(parameters), LAMBDA cacheKey :
    Bind(getFromCache(service.cache, service.cacheOrder, t, cacheKey),
         LAMBDA cached :
    Bind([service EXCEPT !.cache = cached.cache,
                         !.cacheOrder = cached.cacheOrder], LAMBDA looked :
        IF cached.result # Null
          THEN [service |-> looked,
                returned |-> Some([kind |-> "hit",
                                   result |-> cached.result[1],
                                   cacheHit |-> TRUE]),
                suspended |-> Null]
          ELSE Bind(determineSearchSpace(parameters, warmStartEnabled,
                                         service.lastOptimalResult,
                                         service.lastParameters),
                    LAMBDA searchSpace :
                   [service |-> looked,
                    returned |-> Null,
                    suspended |->
                        Some([parameters |-> parameters,
                              cacheKey |-> cacheKey,
                              searchSpace |-> searchSpace,
                              gridResult |->
                                  gridSearch(parameters, searchSpace)])]))))

\* throw new OptimizationError(...): the grid search found nothing
RejectedOn(service) ==
    [service |-> service,
     returned |-> [kind |-> "failed", result |-> NoResult,
                   cacheHit |-> FALSE]]

\* the refinement, addToCache, updateWarmStart and the return
Finished(service, t, call, choice) ==
    Bind(performMainThreadOptimization(call.parameters, call.gridResult,
                                       choice), LAMBDA result :
    Bind(addToCache(service.cache, service.cacheOrder, t, call.cacheKey,
                    result), LAMBDA added :
    Bind(updateWarmStart(call.parameters, result), LAMBDA warm :
        [service |-> [cache |-> added.cache,
                      cacheOrder |-> added.cacheOrder,
                      lastOptimalResult |-> warm.lastOptimalResult,
                      lastParameters |-> warm.lastParameters],
         returned |-> [kind |-> "miss", result |-> result,
                       cacheHit |-> FALSE]])))

\* variant: a resumed call that finds its key stored by now returns the
\* stored result as a hit
ResumedOnce(service, t, call, choice) ==
    IF ~call.gridResult.success THEN RejectedOn(service)
    ELSE IF call.cacheKey \in DOMAIN service.cache
      THEN [service |-> service,
            returned |-> [kind |-> "hit",
                          result |-> service.cache[call.cacheKey].result,
                          cacheHit |-> TRUE]]
    ELSE Finished(service, t, call, choice)

\* the suspended call from the await to its return, at time t on the
\* service as it is by then
Resumed(service, t, call, choice) ==
    IF ~call.gridResult.success THEN RejectedOn(service)
    ELSE Finished(service, t, call, choice)

\* what caller got
ReturnedTo(caller, parameters, returned) ==
    [caller |-> caller, parameters |-> parameters, kind |-> returned.kind,
     result |-> returned.result, cacheHit |-> returned.cacheHit]

\* the service takes the fields of service
ServiceBecomes(service) ==
    /\ cache' = service.cache
    /\ cacheOrder' = service.cacheOrder
    /\ lastOptimalResult' = service.lastOptimalResult
    /\ lastParameters' = service.lastParameters
    /\ recency' = Restrict(recency, DOMAIN service.cache)

\* caller calls findOptimalWealth(parameters) and does not await it
Starts(caller, parameters) ==
    /\ caller \notin inFlight.called
    /\ caller = "second" => "first" \in inFlight.called
    /\ calls' = calls + 1
    /\ \E begun \in {Begun(Service, now, parameters)} :
           /\ ServiceBecomes(begun.service)
           /\ inFlight' =
                  [base |-> IF inFlight.called = {}
                              THEN Some(Service) ELSE inFlight.base,
                   called |-> inFlight.called \cup {caller},
                   overlapped |-> inFlight.overlapped
                                      \/ inFlight.pending # <<>>,
                   pending |->
                       IF begun.suspended = Null THEN inFlight.pending
                       ELSE Append(inFlight.pending,
                                   [caller |-> caller,
                                    call |-> begun.suspended[1]]),
                   returned |->
                       IF begun.returned = Null THEN inFlight.returned
                       ELSE inFlight.returned
                                \cup {ReturnedTo(caller, parameters,
                                                 begun.returned[1])}]
           /\ ret' = IF begun.returned = Null
                       THEN [NoCall EXCEPT
                                !.kind = "pending",
                                !.parameters = Some(parameters),
                                !.key = Some(begun.suspended[1].cacheKey)]
                       ELSE [NoCall EXCEPT
                                !.kind = "hit",
                                !.parameters = Some(parameters),
                                !.result = begun.returned[1].result,
                                !.cacheHit = TRUE]
    /\ UNCHANGED <<warmStartEnabled, workerOptions, taxTable, now, manager,
                   app>>

\* the suspended call that has waited longest is resumed and returns
Resumes ==
    /\ inFlight.pending # <<>>
    /\ \E choice \in MinimizerChoices :
       \E job \in {Head(inFlight.pending)} :
       \E resumed \in {Resumed(Service, now, job.call, choice)} :
           /\ ServiceBecomes(resumed.service)
           /\ inFlight' =
                  [inFlight EXCEPT
                      !.pending = Tail(inFlight.pending),
                      !.returned =
                          inFlight.returned
                              \cup {ReturnedTo(job.caller, job.call.parameters,
                                               resumed.returned)}]
           /\ ret' = [NoCall EXCEPT
                         !.kind = resumed.returned.kind,
                         !.parameters = Some(job.call.parameters),
                         !.key = Some(job.call.cacheKey),
                         !.result = resumed.returned.result,
                         !.searchSpace = Some(job.call.searchSpace),
                         !.gridResult = Some(job.call.gridResult)]
    /\ UNCHANGED <<calls, warmStartEnabled, workerOptions, taxTable, now,
                   manager, app>>

NextOverlap ==
    \/ \E caller \in Callers, parameters \in OverlapWorkload :
           Starts(caller, parameters)
    \/ Resumes

SpecOverlap == Init /\ [][NextOverlap]_vars

(***************************************************************************)
(* The WorkerManager.  A worker is known by a number; manager.info[w] is   *)
(* the workerInfo made for worker w (busy, currentJobId) together with     *)
(* the worker's own side: the job it is running and whether it is alive.   *)
(* manager.workers is the array this.workers, whose entries refer to       *)
(* workerInfo objects.  manager.settled[j] lists the calls of job j's      *)
(* resolve and reject, in order.                                           *)
(***************************************************************************)
\* the variables of the OptimizationService and of the page
ServiceVars ==
    <<cache, cacheOrder, lastOptimalResult, lastParameters, warmStartEnabled,
      workerOptions, now, ret, recency, calls, taxTable, inFlight>>

\* createWorker: new Worker(...), a workerInfo for it, this.workers.push
createWorker(m) ==
    [m EXCEPT !.info = Append(m.info, [busy |-> FALSE, currentJobId |-> 0,
                                       running |-> 0, alive |-> TRUE]),
              !.workers = Append(m.workers, Len(m.info) + 1)]

\* initialize: maxWorkers times createWorker
RECURSIVE CreateWorkers(_, _)
CreateWorkers(m, n) ==
    IF n = 0 THEN m ELSE CreateWorkers(createWorker(m), n - 1)

initialize(m) ==
    IF m.isInitialized THEN m
    ELSE [CreateWorkers(m, MaxWorkers) EXCEPT !.isInitialized = TRUE]

\* this.workers.find(w => !w.busy): the worker of the first entry that is
\* not busy, 0 when there is none
RECURSIVE FirstIdle(_, _)
FirstIdle(m, i) ==
    IF i > Len(m.workers) THEN 0
    ELSE IF ~m.info[m.workers[i]].busy THEN m.workers[i]
    ELSE FirstIdle(m, i + 1)

findAvailableWorker(m) == FirstIdle(m, 1)

\* the worker is in this.workers
Pooled(m, w) == \E i \in DOMAIN m.workers : m.workers[i] = w

\* assignJobToWorker: busy, currentJobId, postMessage (which a live worker
\* takes up, and a terminated one never sees)
assignJobToWorker(m, job, w) ==
    [m EXCEPT !.info[w].busy = TRUE,
              !.info[w].currentJobId = job,
              !.info[w].running = IF m.info[w].alive THEN job
                                  ELSE m.info[w].running]

\* freeWorker: the workerInfo of the worker, if this.workers has it
freeWorker(m, w) ==
    IF Pooled(m, w)
      THEN [m EXCEPT !.info[w].busy = FALSE, !.info[w].currentJobId = 0]
      ELSE m

\* variant: a queued job that is not active any more is skipped
RECURSIVE processQueueActiveOnly(_)
processQueueActiveOnly(m) ==
    IF m.jobQueue = <<>> THEN m
    ELSE IF Head(m.jobQueue) \notin m.activeJobs
      THEN processQueueActiveOnly([m EXCEPT !.jobQueue = Tail(m.jobQueue)])
    ELSE IF findAvailableWorker(m) = 0 THEN m
    ELSE processQueueActiveOnly(
             assignJobToWorker([m EXCEPT !.jobQueue = Tail(m.jobQueue)],
                               Head(m.jobQueue), findAvailableWorker(m)))

\* processQueue: while there is a queued job and an available worker
RECURSIVE processQueue(_)
processQueue(m) ==
    IF m.jobQueue = <<>> \/ findAvailableWorker(m) = 0 THEN m
    ELSE processQueue(
             assignJobToWorker([m EXCEPT !.jobQueue = Tail(m.jobQueue)],
                               Head(m.jobQueue), findAvailableWorker(m)))

\* variant: the job is settled and stays in activeJobs
SettleKeepsActive(m, job, outcome) ==
    IF job \notin m.activeJobs THEN m
    ELSE [m EXCEPT !.settled[job] = Append(m.settled[job], outcome)]

\* completeJob and failJob: nothing for a job that is not in activeJobs;
\* else clearTimeout, activeJobs.delete, job.resolve or job.reject
Settle(m, job, outcome) ==
    IF job \notin m.activeJobs THEN m
    ELSE [m EXCEPT !.activeJobs = m.activeJobs \ {job},
                   !.settled[job] = Append(m.settled[job], outcome)]

completeJob(m, job) == Settle(m, job, "resolved")

failJob(m, job, message) == Settle(m, job, message)

\* variant: the worker is freed and the queue processed for every result
\* or error message, also when its job is not active any more
handleWorkerMessageFreeing(m, w, type) ==
    Bind(m.info[w].running, LAMBDA job :
    Bind([m EXCEPT !.info[w].running = 0], LAMBDA idle :
        processQueue(freeWorker(
            IF type = "result" THEN completeJob(idle, job)
            ELSE failJob(idle, job, "worker error"), w))))

\* handleWorkerMessage for the 'result' or 'error' message of the job the
\* worker was running
handleWorkerMessage(m, w, type) ==
    Bind(m.info[w].running, LAMBDA job :
    Bind([m EXCEPT !.info[w].running = 0], LAMBDA idle :
        IF job \notin idle.activeJobs THEN idle
        ELSE processQueue(freeWorker(
                 IF type = "result" THEN completeJob(idle, job)
                 ELSE failJob(idle, job, "worker error"), w))))

\* the index of the worker in this.workers, 0 for -1
RECURSIVE FindIndex(_, _, _)
FindIndex(m, w, i) ==
    IF i > Len(m.workers) THEN 0
    ELSE IF m.workers[i] = w THEN i
    ELSE FindIndex(m, w, i + 1)

\* variant: the new workerInfo takes the place of the failed one and is not
\* pushed as well
replaceWorkerInPlace(m, w, created) ==
    Bind(FindIndex(m, w, 1), LAMBDA workerIndex :
        IF workerIndex = 0 THEN m
        ELSE Bind([m EXCEPT !.info[w].alive = FALSE, !.info[w].running = 0],
                  LAMBDA terminated :
             IF ~created THEN terminated
             ELSE [terminated EXCEPT
                      !.info = Append(terminated.info,
                                      [busy |-> FALSE, currentJobId |-> 0,
                                       running |-> 0, alive |-> TRUE]),
                      !.workers[workerIndex] = Len(terminated.info) + 1]))

\* replaceWorker: terminate, createWorker (which pushes the new workerInfo),
\* this.workers[workerIndex] = newWorkerInfo; created is whether new
\* Worker(...) worked
replaceWorker(m, w, created) ==
    Bind(FindIndex(m, w, 1), LAMBDA workerIndex :
        IF workerIndex = 0 THEN m
        ELSE Bind([m EXCEPT !.info[w].alive = FALSE, !.info[w].running = 0],
                  LAMBDA terminated :
             IF ~created THEN terminated
             ELSE [createWorker(terminated) EXCEPT
                      !.workers[workerIndex] = Len(terminated.info) + 1]))

\* handleWorkerError: the active job that is the worker's current job
\* fails, and the worker is replaced
handleWorkerError(m, w, created) ==
    replaceWorker(
        IF Pooled(m, w) /\ m.info[w].currentJobId \in m.activeJobs
          THEN failJob(m, m.info[w].currentJobId, "Worker crashed")
          ELSE m,
        w, created)

\* optimizeWealth: the job, its timeout, and a worker or the queue
optimizeWealth(m) ==
    Bind(initialize(m), LAMBDA ready :
    Bind([ready EXCEPT !.nextJobId = ready.nextJobId + 1,
                       !.activeJobs = ready.activeJobs \cup {ready.nextJobId},
                       !.settled = Append(ready.settled, <<>>)],
         LAMBDA submitted :
        IF findAvailableWorker(submitted) # 0
          THEN assignJobToWorker(submitted, ready.nextJobId,
                                 findAvailableWorker(submitted))
          ELSE [submitted EXCEPT
                   !.jobQueue = Append(submitted.jobQueue, ready.nextJobId)]))

\* destroy: every active job is rejected, every worker terminated
RECURSIVE RejectAll(_, _)
RejectAll(m, jobs) ==
    IF jobs = {} THEN m
    ELSE Bind(CHOOSE job \in jobs : TRUE, LAMBDA job :
             RejectAll(failJob(m, job, "Worker pool destroyed"),
                       jobs \ {job}))

destroy(m) ==
    [RejectAll(m, m.activeJobs) EXCEPT
        !.jobQueue = <<>>,
        !.workers = <<>>,
        !.info = [w \in DOMAIN m.info |->
                     [m.info[w] EXCEPT !.alive = FALSE, !.running = 0]],
        !.isInitialized = FALSE]

\* a caller submits a job
Submit ==
    /\ manager.nextJobId <= MaxJobs
    /\ manager' = optimizeWealth(manager)
    /\ UNCHANGED <<ServiceVars, app>>

\* worker w posts the message that ends its job, and the manager handles it
WorkerPosts(w, type) ==
    /\ manager.info[w].alive
    /\ manager.info[w].running # 0
    /\ manager' = handleWorkerMessage(manager, w, type)
    /\ UNCHANGED <<ServiceVars, app>>

\* worker w fails with an error event
WorkerCrashes(w, created) ==
    /\ manager.info[w].alive
    /\ manager.crashes < MaxCrashes
    /\ manager' = [handleWorkerError(manager, w, created) EXCEPT
                      !.crashes = manager.crashes + 1]
    /\ UNCHANGED <<ServiceVars, app>>

\* the timeout of job fires (completeJob and failJob clear it)
JobTimeout(job) ==
    /\ job \in manager.activeJobs
    /\ manager' = failJob(manager, job, "Job timeout")
    /\ UNCHANGED <<ServiceVars, app>>

\* destroy()
Destroy ==
    /\ manager.isInitialized
    /\ manager' = destroy(manager)
    /\ UNCHANGED <<ServiceVars, app>>

NextManager ==
    \/ Submit
    \/ \E w \in DOMAIN manager.info, type \in {"result", "error"} :
           WorkerPosts(w, type)
    \/ \E w \in DOMAIN manager.info, created \in BOOLEAN :
           WorkerCrashes(w, created)
    \/ \E job \in 1..MaxJobs : JobTimeout(job)
    \/ Destroy

SpecManager == InitLru /\ [][NextManager]_vars

\* the timers of the event loop fire: a job that stays active times out
SpecManagerFair ==
    SpecManager /\ \A job \in 1..MaxJobs : WF_vars(JobTimeout(job))

\* the tax effect chart: the tax rates of createTaxEffectConfig, asked for
\* one after the other with the other parameters at their defaults
TaxRates ==
    <<0, Scale \div 10, (2 * Scale) \div 10, (3 * Scale) \div 10,
      (4 * Scale) \div 10, (5 * Scale) \div 10>>

SweepParameters(parameters, i) == [parameters EXCEPT !.tau = TaxRates[i]]

NextSweep ==
    /\ calls < Len(TaxRates)
    /\ \E parameters \in {SweepParameters(DefaultParameters, calls + 1)} :
           FindOptimalWealth(parameters)

SpecSweep == Init /\ [][NextSweep]_vars

\* generateTaxEffectTable: the same tax rates, asked for one after the other
\* with the caller's other parameters; the function stops at each await and
\* resumes with the answer
TableWorkload == {DefaultParameters, LongerLifeParameters}

\* the table function is running
TableRunning == taxTable.state = "running"

\* the call and the code up to the first await: the arrays are empty
GenerateTaxEffectTable(parameters) ==
    /\ taxTable.state = "not called"
    /\ taxTable' = [state |-> "running", parameters |-> Some(parameters),
                    data |-> <<>>, effects |-> Null]
    /\ UNCHANGED <<cache, cacheOrder, lastOptimalResult, lastParameters,
                   warmStartEnabled, workerOptions, now, ret, recency, calls,
                   inFlight, manager, app>>

\* const params = { ...parameters, tau };  await findOptimalWealth(params)
TableAsks ==
    /\ TableRunning
    /\ Len(taxTable.data) = calls
    /\ calls < Len(TaxRates)
    /\ \E parameters \in
           {SweepParameters(taxTable.parameters[1], calls + 1)} :
           FindOptimalWealth(parameters)

\* deltaY / deltaX, NaN when a wealth is
Slope(from, to) ==
    IF from.y = NaN \/ to.y = NaN THEN NaN
    ELSE DivS(to.y - from.y, to.x - from.x)

RECURSIVE SlopeSum(_, _)
SlopeSum(data, i) ==
    IF i < 2 THEN 0
    ELSE Bind(SlopeSum(data, i - 1), LAMBDA sum :
         Bind(Slope(data[i - 1], data[i]), LAMBDA slope :
             IF sum = NaN \/ slope = NaN THEN NaN ELSE sum + slope))

\* the sum of the slopes over the number of points, one too many
calculateMeanSlopeOverPoints(data) ==
    IF Len(data) < 2 THEN 0
    ELSE Bind(SlopeSum(data, Len(data)), LAMBDA sum :
             IF sum = NaN THEN NaN ELSE DivS(sum, Len(data) * Scale))

\* calculateMeanSlope: 0 for fewer than two points, else the sum of the
\* slopes between neighbours over their number
calculateMeanSlope(data) ==
    IF Len(data) < 2 THEN 0
    ELSE Bind(SlopeSum(data, Len(data)), LAMBDA sum :
             IF sum = NaN THEN NaN ELSE DivS(sum, (Len(data) - 1) * Scale))

\* value.toFixed(3): the nearest multiple of 0.001, halves away from zero,
\* and "NaN" for NaN
toFixed3(value) ==
    IF value = NaN THEN NaN
    ELSE IF value < 0 THEN -RoundMilli(-value) ELSE RoundMilli(value)

\* a slope over ten
OverTen(value) == IF value = NaN THEN NaN ELSE DivS(value, 10 * Scale)

\* the three arrays the loop fills, read off the collected answers
beforeTaxData(data) ==
    [i \in DOMAIN data |-> [x |-> data[i].x, y |-> data[i].w1]]

afterTaxData(data) ==
    [i \in DOMAIN data |->
        [x |-> data[i].x, y |-> Times(data[i].w1, Scale - data[i].x)]]

bequestData(data) ==
    [i \in DOMAIN data |-> [x |-> data[i].x, y |-> data[i].w2]]

\* the effects as the table shows them
Effects(data) ==
    [before  |-> toFixed3(OverTen(calculateMeanSlope(beforeTaxData(data)))),
     after   |-> toFixed3(OverTen(calculateMeanSlope(afterTaxData(data)))),
     bequest |-> toFixed3(OverTen(calculateMeanSlope(bequestData(data))))]

\* the code after the await: a rejected call ends the function with the
\* error, an answer is pushed, and after the last one the table is made
TableResumes ==
    /\ TableRunning
    /\ Len(taxTable.data) = calls - 1
    /\ IF ret.kind \in {"hit", "miss"}
         THEN \E data \in {Append(taxTable.data,
                                  [x  |-> TaxRates[calls],
                                   w1 |-> ret.result.w1,
                                   w2 |-> ret.result.w2])} :
                  taxTable' =
                      IF Len(data) = Len(TaxRates)
                        THEN [taxTable EXCEPT !.state = "returned",
                                              !.data = data,
                                              !.effects = Some(Effects(data))]
                        ELSE [taxTable EXCEPT !.data = data]
         ELSE taxTable' = [taxTable EXCEPT !.state = "rejected"]
    /\ UNCHANGED <<cache, cacheOrder, lastOptimalResult, lastParameters,
                   warmStartEnabled, workerOptions, now, ret, recency, calls,
                   inFlight, manager, app>>

NextTable ==
    \/ \E parameters \in TableWorkload : GenerateTaxEffectTable(parameters)
    \/ TableAsks
    \/ TableResumes

SpecTable == InitLru /\ [][NextTable]_vars

(***************************************************************************)
(* Properties                                                              *)
(***************************************************************************)
\* a step that is a findOptimalWealth call which passed validation
CallStep == calls' = calls + 1 /\ ret'.kind \in {"hit", "miss", "failed"}

\* the cache holds a live entry under key at the current time
Live(key) == key \in DOMAIN cache /\ ~Expired(cache[key], now)

\* the optimizer ran in the call that ret describes
RanOptimizer(r) == r.searchSpace # Null /\ r.gridResult # Null

Occurrences(seq, key) == Cardinality({i \in 1..Len(seq) : seq[i] = key})

\* C1: a call that runs the optimizer and succeeds returns cacheHit false and
\* stores its result; a call for parameters whose entry is in the cache and
\* not older than the TTL runs no optimization and returns the stored w1,
\* w2, utility, iterations, convergence and method with cacheHit true; a
\* call repeated at once with identical parameters returns what the call
\* before it returned.
C1_SecondCallServedFromCache ==
    [][CallStep =>
        LET key == ret'.key[1] IN
        /\ ret'.kind = "miss" =>
               /\ ~ret'.cacheHit
               /\ key \in DOMAIN cache'
               /\ cache'[key].result = ret'.result
        /\ Live(key) =>
               /\ ret'.kind = "hit"
               /\ ret'.cacheHit
               /\ ~RanOptimizer(ret')
               /\ ret'.result = cache[key].result
        /\ (ret.kind \in {"hit", "miss"} /\ ret'.parameters = ret.parameters) =>
               /\ ret'.kind = "hit"
               /\ ret'.cacheHit
               /\ ret'.result = ret.result]_vars

\* a second call with the parameters of the optimizer run before it was
\* served from the cache with that run's point
C1_Witness ==
    /\ ret.kind = "hit"
    /\ ret.cacheHit
    /\ ret.parameters = lastParameters
    /\ ret.parameters = Some(DefaultParameters)
    /\ lastOptimalResult = Some([w1 |-> ret.result.w1, w2 |-> ret.result.w2])
    /\ ret.result.convergence = "converged"

\* C2: a call whose key has an entry older than the TTL is not served from
\* the cache: the optimizer runs, cacheHit is false and the old entry is
\* gone from the map (replaced by a new one when the run succeeds); a call
\* whose key has an entry of age at most the TTL is always a hit.
\* getFromCache itself reports a miss and drops the entry exactly when the
\* age is above the TTL.
C2_ExpiredEntryIsMiss ==
    [][/\ \A key \in DOMAIN cache :
             LET got == getFromCache(cache, cacheOrder, now, key) IN
             IF now - cache[key].timestamp > CacheTTL
               THEN got.result = Null /\ key \notin DOMAIN got.cache
               ELSE got.result = Some(cache[key].result)
       /\ CallStep =>
             LET key == ret'.key[1] IN
             /\ (key \in DOMAIN cache /\ now - cache[key].timestamp > CacheTTL) =>
                    /\ ret'.kind \in {"miss", "failed"}
                    /\ ~ret'.cacheHit
                    /\ RanOptimizer(ret')
                    /\ key \in DOMAIN cache' => cache'[key].timestamp = now
             /\ (key \in DOMAIN cache /\ now - cache[key].timestamp <= CacheTTL) =>
                    ret'.kind = "hit"]_vars

\* a call found its entry expired and ran the optimizer again: the key is
\* twice in cacheOrder, once from each insertion
C2_Witness ==
    /\ ret.kind = "miss"
    /\ ~ret.cacheHit
    /\ now > CacheTTL
    /\ ret.key[1] \in DOMAIN cache
    /\ cache[ret.key[1]].timestamp = now
    /\ Occurrences(cacheOrder, ret.key[1]) = 2

\* the position of key in the order of last use (1 is the most recent)
UsedRank(key) == CHOOSE i \in 1..Len(recency) : recency[i] = key

\* the live entries addToCache finds in the map in a call for key
LiveBefore(key) ==
    {k \in DOMAIN getFromCache(cache, cacheOrder, now, key).cache : Live(k)}

\* those of them it removes, and those it leaves
Evicted(key) == LiveBefore(key) \ (DOMAIN cache')

Survivors(key) == (LiveBefore(key) \cap (DOMAIN cache')) \ {key}

\* C3: when addToCache is called with CacheSize live entries in the map it
\* evicts exactly one, the least recently used; and whenever it evicts a
\* live entry, every live entry it leaves in the map was used more recently
\* than the evicted one.
C3_EvictsLeastRecentlyUsed ==
    [][(CallStep /\ ret'.kind = "miss") =>
        LET key == ret'.key[1] IN
        /\ Cardinality(LiveBefore(key)) = CacheSize =>
               Evicted(key) = {recency[Len(recency)]}
        /\ \A gone \in Evicted(key) : \A kept \in Survivors(key) :
               UsedRank(kept) < UsedRank(gone)]_vars

\* w1, w2 and utility of a result
Values(result) == <<result.w1, result.w2, result.utility>>

\* what the refinement can make of a grid result, one result for each
\* behaviour of the minimizer
RefinedRuns(parameters, gridResult) ==
    IF gridResult.success
      THEN {performMainThreadOptimization(parameters, gridResult, choice) :
                choice \in MinimizerChoices}
      ELSE {}

\* the results an optimizer run for parameters can return with the given
\* warm-start slot
OptimizerRuns(parameters, lastResult, lastParams) ==
    RefinedRuns(parameters,
                gridSearch(parameters,
                           determineSearchSpace(parameters, warmStartEnabled,
                                                lastResult, lastParams)))

\* C4 as stated: the w1, w2 and utility returned on a cache hit for p are
\* those of a fresh optimizer run for exactly p, be it a run with an empty
\* warm-start slot or a run with the slot as it is.
C4_HitEqualsFreshRun ==
    [][(CallStep /\ ret'.kind = "hit") =>
        Values(ret'.result) \in
            {Values(fresh) :
                fresh \in OptimizerRuns(ret'.parameters[1], Null, Null)
                    \cup OptimizerRuns(ret'.parameters[1], lastOptimalResult,
                                       lastParameters)}]_vars

\* C4, amended: a cache hit for p returns the entry stored under
\* generateCacheKey(p), and an entry is only ever written by a call that
\* missed and ran the optimizer for a parameter set with that key: it holds
\* what that run made of its grid result, in a box determined with the
\* warm-start slot of that time.
C4_HitReturnsStoredRun ==
    [][/\ (CallStep /\ ret'.kind = "hit") =>
             /\ ret'.key = Some(generateCacheKey(ret'.parameters[1]))
             /\ Values(ret'.result) = Values(cache[ret'.key[1]].result)
       /\ \A key \in DOMAIN cache' :
             (key \notin DOMAIN cache \/ cache'[key] # cache[key]) =>
                 /\ CallStep
                 /\ ret'.kind = "miss"
                 /\ generateCacheKey(ret'.parameters[1]) = key
                 /\ cache'[key].result = ret'.result
                 /\ ret'.searchSpace =
                        Some(determineSearchSpace(ret'.parameters[1],
                                                  warmStartEnabled,
                                                  lastOptimalResult,
                                                  lastParameters))
                 /\ ret'.result \in RefinedRuns(ret'.parameters[1],
                                                ret'.gridResult[1])]_vars

\* a call for the default parameters was served the result of the run for
\* the nudged parameters, which differs from every result of a run for the
\* defaults with an empty warm-start slot
C4_Witness ==
    /\ ret.kind = "hit"
    /\ ret.parameters = Some(DefaultParameters)
    /\ lastParameters = Some(NudgedParameters)
    /\ lastOptimalResult = Some([w1 |-> ret.result.w1, w2 |-> ret.result.w2])
    /\ Values(ret.result) \notin
           {Values(fresh) : fresh \in OptimizerRuns(DefaultParameters, Null, Null)}

\* C5: a call that runs the optimizer and succeeds leaves its own (w1, w2)
\* and its own parameters in the warm-start slot; a call served from the
\* cache leaves lastOptimalResult and lastParameters as they were.
C5_WarmStartSlotFollowsRuns ==
    [][CallStep =>
        /\ ret'.kind = "miss" =>
               /\ lastOptimalResult' =
                      Some([w1 |-> ret'.result.w1, w2 |-> ret'.result.w2])
               /\ lastParameters' = ret'.parameters
        /\ ret'.kind = "hit" =>
               UNCHANGED <<lastOptimalResult, lastParameters>>]_vars

\* a call for the default parameters was served from the cache while the
\* slot holds the point and the parameters of a run for other parameters
C5_Witness ==
    /\ ret.kind = "hit"
    /\ ret.parameters = Some(DefaultParameters)
    /\ lastParameters = Some(LowGammaParameters)
    /\ lastOptimalResult # Null
    /\ generateCacheKey(LowGammaParameters) \in DOMAIN cache
    /\ lastOptimalResult[1].w1 =
           cache[generateCacheKey(LowGammaParameters)].result.w1

\* the hint determineSearchSpace may use for parameters: warm start is on,
\* a hint exists, its parameters are similar and it passes checkConstraints
HintUsable(parameters) ==
    /\ warmStartEnabled
    /\ lastOptimalResult # Null
    /\ isParameterSimilar(parameters, lastParameters)
    /\ checkConstraints(lastOptimalResult[1].w1, lastOptimalResult[1].w2,
                        parameters)

\* C6: the box of a run is centred on the hint with radius 0.2 exactly when
\* warm start is enabled, a hint exists, its parameters are similar to the
\* current ones and it passes checkConstraints under the current ones; in
\* every other case the centre is (0.6 maxW1, 0.5 maxW1) and the radius 0.4.
C6_SearchBoxCentre ==
    [][(CallStep /\ RanOptimizer(ret')) =>
        LET parameters == ret'.parameters[1]
            box == ret'.searchSpace[1]
        IN  IF HintUsable(parameters)
              THEN /\ box.centerW1 = lastOptimalResult[1].w1
                   /\ box.centerW2 = lastOptimalResult[1].w2
                   /\ box.radius = (2 * Scale) \div 10
              ELSE /\ box.centerW1 = (6 * MaxW1(parameters)) \div 10
                   /\ box.centerW2 = (5 * MaxW1(parameters)) \div 10
                   /\ box.radius = (4 * Scale) \div 10]_vars

\* a run for the short horizon searched a box of radius 0.2 around the
\* point of the run before it, which was for the long horizon
C6_Witness ==
    /\ ret.kind = "miss"
    /\ ret.parameters = Some(HighTaxShortParameters)
    /\ ret.searchSpace[1].radius = (2 * Scale) \div 10
    /\ ret.searchSpace[1].centerW1 # (6 * MaxW1(HighTaxShortParameters)) \div 10
    /\ ret.searchSpace[1].w1Min < ret.searchSpace[1].centerW1

\* the samples of the grid over a box
GridSamples(space) ==
    {<<GridW1(space, k), GridW2(space, k)>> :
        k \in 0..((GridSteps + 1) * (GridSteps + 1) - 1)}

NoSamplePasses(parameters, space) ==
    \A sample \in GridSamples(space) :
        ~checkConstraints(sample[1], sample[2], parameters)

\* C7: a call whose grid has no sample that passes checkConstraints fails
\* and returns no result: no point, no cache hit, and nothing stored under
\* its key.
C7_NoFeasibleSampleFails ==
    [][(CallStep /\ RanOptimizer(ret')
          /\ NoSamplePasses(ret'.parameters[1], ret'.searchSpace[1])) =>
        /\ ret'.kind = "failed"
        /\ ret'.result = NoResult
        /\ ~ret'.cacheHit
        /\ ret'.key[1] \notin DOMAIN cache']_vars

\* a call for the short horizon searched the cold box, where no sample
\* passes checkConstraints, and failed
C7_Witness ==
    /\ ret.kind = "failed"
    /\ ret.parameters = Some(HighTaxShortParameters)
    /\ RanOptimizer(ret)
    /\ NoSamplePasses(HighTaxShortParameters, ret.searchSpace[1])
    /\ ~ret.gridResult[1].success

\* the box has a feasible point among its samples: one that passes
\* checkConstraints and whose lifetimeUtility is not the sentinel
FeasibleSample(parameters, space) ==
    \E sample \in GridSamples(space) :
        /\ checkConstraints(sample[1], sample[2], parameters)
        /\ Utility(parameters, sample[1], sample[2]) # Sentinel

\* C8: a call whose grid has no feasible sample fails, also when samples
\* pass checkConstraints and lifetimeUtility gives the sentinel for each of
\* them; no call returns a result whose utility is the sentinel.
C8_SentinelNeverReturned ==
    /\ ret.kind \in {"hit", "miss"} => ret.result.utility # Sentinel
    /\ (RanOptimizer(ret)
          /\ ~FeasibleSample(ret.parameters[1], ret.searchSpace[1])) =>
           ret.kind = "failed"

\* the entries of the map other than the one under key stay as they are
OthersKept(key) ==
    /\ (DOMAIN cache') \ {key} = (DOMAIN cache) \ {key}
    /\ \A k \in (DOMAIN cache) \ {key} : cache'[k] = cache[k]

\* C9 as stated: a call that fails leaves the cache map, the LRU order and
\* the warm-start slot exactly as they were.
C9_FailedCallChangesNothing ==
    [][(CallStep /\ ret'.kind = "failed") =>
        UNCHANGED <<cache, cacheOrder, lastOptimalResult, lastParameters>>]_vars

\* C9, amended: a call that fails stores no entry and leaves the LRU order,
\* the warm-start slot and every entry under another key as they were; the
\* entry under its own key is as it was when it was absent and is removed
\* when it was older than the TTL.
C9_FailedCallOnlyDropsExpired ==
    [][(CallStep /\ ret'.kind = "failed") =>
        LET key == ret'.key[1] IN
        /\ UNCHANGED <<cacheOrder, lastOptimalResult, lastParameters>>
        /\ OthersKept(key)
        /\ key \notin DOMAIN cache'
        /\ key \in DOMAIN cache => now - cache[key].timestamp > CacheTTL]_vars

\* a call failed after its own entry, stored by an earlier run from a hint,
\* had expired: the key is in cacheOrder and not in the map
C9_Witness ==
    /\ ret.kind = "failed"
    /\ ret.parameters = Some(HighTaxShortParameters)
    /\ now > CacheTTL
    /\ Occurrences(cacheOrder, ret.key[1]) = 1
    /\ ret.key[1] \notin DOMAIN cache

\* C10: the utility a run returns is at least the utility of the grid-search
\* argmax; the point returned is the grid argmax with the grid utility
\* unless it passes checkConstraints and has a greater utility.
C10_RefinementNeverRegresses ==
    ret.kind = "miss" =>
        LET grid == ret.gridResult[1] IN
        /\ ret.result.utility >= grid.utility
        /\ \/ Values(ret.result) = <<grid.w1, grid.w2, grid.utility>>
           \/ /\ checkConstraints(ret.result.w1, ret.result.w2,
                                   ret.parameters[1])
              /\ ret.result.utility > grid.utility

(***************************************************************************)
(* Refinement that is not accepted                                         *)
(***************************************************************************)
\* the minimizer threw, reported a non-finite or penalty-level objective
\* value, or returned a point that fails checkConstraints
Rejected(parameters, result) ==
    \/ result.threw
    \/ ~isFinite(result.f)
    \/ result.f >= RefineLimit
    \/ ~checkConstraints(result.solution.w1, result.solution.w2, parameters)

\* what performMainThreadOptimization returns for a result of the minimizer,
\* and whether that result is a rejected one
RunOf(parameters, gridResult, result) ==
    [rejected |-> Rejected(parameters, result),
     run |-> Packaged(Refined(parameters, gridResult, result))]

\* the refinements of a grid result that the minimizer can lead to
Runs(parameters, gridResult) ==
    {RunOf(parameters, gridResult, uncmin(parameters, gridResult, choice)) :
        choice \in MinimizerChoices}

\* C11: a call whose grid search succeeded returns a result whatever the
\* minimizer does; when the minimizer throws, reports a non-finite or
\* penalty-level objective value or returns a point that fails
\* checkConstraints, the result is the grid search's w1, w2 and utility with
\* convergence "grid_only"; convergence is "converged" only for a refined
\* point that was accepted.
C11_RejectedRefinementReturnsGrid ==
    [][(CallStep /\ RanOptimizer(ret') /\ ret'.gridResult[1].success) =>
        \A runs \in {Runs(ret'.parameters[1], ret'.gridResult[1])} :
            /\ ret'.kind = "miss"
            /\ ret'.result \in {x.run : x \in runs}
            /\ \A x \in runs :
                   x.rejected =>
                       /\ Values(x.run) = Values(ret'.gridResult[1])
                       /\ x.run.convergence = "grid_only"
            /\ \A x \in runs :
                   x.run.convergence = "converged" <=> ~x.rejected]_vars

\* a call returned the grid point with convergence "grid_only" after the
\* minimizer handed back a result that was rejected
C11_Witness ==
    /\ ret.kind = "miss"
    /\ ret.result.convergence = "grid_only"
    /\ Values(ret.result) = Values(ret.gridResult[1])
    /\ \E x \in Runs(ret.parameters[1], ret.gridResult[1]) :
           x.rejected /\ x.run = ret.result

(***************************************************************************)
(* Returned points and the constraints                                     *)
(***************************************************************************)
\* 0 < w1 < w0 e^(r t1) and 0 < w2 < w1 (1 - tau) e^(r t2), each comparison
\* as JavaScript makes it
StrictlyInside(w1, w2, parameters) ==
    /\ Greater(w1, 0)
    /\ Greater(MaxW1(parameters), w1)
    /\ Greater(w2, 0)
    /\ Greater(MulS(MulS(w1, Scale - parameters.tau),
                    Exp(parameters.r * parameters.t2)), w2)

\* C12: the w1 and w2 a call returns, from a fresh run or from the cache,
\* lie strictly inside the constraints under the parameters of that call.
C12_ResultInsideConstraints ==
    ret.kind \in {"hit", "miss"} =>
        StrictlyInside(ret.result.w1, ret.result.w2, ret.parameters[1])

\* C13: the w1, w2, utility and iterations of a returned result are finite
\* numbers, whatever the minimizer handed back.
C13_ResultFieldsFinite ==
    ret.kind \in {"hit", "miss"} =>
        /\ isFinite(ret.result.w1)
        /\ isFinite(ret.result.w2)
        /\ isFinite(ret.result.utility)
        /\ ret.result.iterations \in Nat

(***************************************************************************)
(* The tax sweep                                                           *)
(***************************************************************************)
\* C14: with the other parameters at their defaults, each call of the sweep
\* over the tax rates 0, 0.1, 0.2, 0.3, 0.4, 0.5, made in that order on one
\* service, returns a result, whatever the calls before it left in the
\* cache and in the warm-start slot.  The samples of a grid of two steps in
\* each direction are samples of the grid of 100 steps over the same box.
C14_SweepNeverFails ==
    [][calls' = calls + 1 =>
        /\ ret'.parameters = Some(SweepParameters(DefaultParameters, calls'))
        /\ ret'.kind = "miss"
        /\ ret'.gridResult[1].success]_vars

\* the sweep has made its last call, for a tax of 50%, with the cache and
\* the warm-start slot as the calls before it left them
C14_Witness ==
    /\ calls = Len(TaxRates)
    /\ ret.kind = "miss"
    /\ ret.parameters[1].tau = (5 * Scale) \div 10
    /\ cache # <<>>
    /\ warmStartEnabled
    /\ lastOptimalResult # Null
    /\ lastParameters = ret.parameters

(***************************************************************************)
(* The grid search as a function of its inputs                             *)
(***************************************************************************)
GridIndices == 0..((GridSteps + 1) * (GridSteps + 1) - 1)

\* the samples of the grid that pass checkConstraints, by their index
PassingIndices(parameters, space) ==
    {k \in GridIndices :
        checkConstraints(GridW1(space, k), GridW2(space, k), parameters)}

\* the grid result is the sample of index k with its utility
ReturnsSample(parameters, space, gridResult, k) ==
    /\ gridResult.w1 = GridW1(space, k)
    /\ gridResult.w2 = GridW2(space, k)
    /\ gridResult.utility = Utility(parameters, gridResult.w1, gridResult.w2)

\* no sample of passing has a utility above that of the grid result
NoneBetter(parameters, space, gridResult, passing) ==
    \A k \in passing :
        Utility(parameters, GridW1(space, k), GridW2(space, k))
            <= gridResult.utility

\* C15: the grid search visits (N+1)*(N+1) samples, the first and the last
\* being the corners of the box, and calls lifetimeUtility once for each
\* sample that passes checkConstraints and for no other; when it succeeds,
\* the point it returns is a visited sample that passes checkConstraints,
\* with that sample's utility, and no visited sample that passes
\* checkConstraints has a greater utility.
C15_GridReturnsBestSample ==
    [][(calls' = calls + 1 /\ RanOptimizer(ret')) =>
        \A space \in {ret'.searchSpace[1]} :
        \A passing \in {PassingIndices(ret'.parameters[1], space)} :
        \A trace \in {GridLoop(ret'.parameters[1], space, 0, GridStart(space))} :
            /\ ret'.gridResult[1] = GridResult(trace)
            /\ trace.evaluations = (GridSteps + 1) * (GridSteps + 1)
            /\ trace.utilityCalls = Cardinality(passing)
            /\ GridW1(space, 0) = space.w1Min /\ GridW2(space, 0) = space.w2Min
            /\ GridW1(space, trace.evaluations - 1) = space.w1Max
            /\ GridW2(space, trace.evaluations - 1) = space.w2Max
            /\ ret'.gridResult[1].success =>
                   /\ \E k \in passing :
                          ReturnsSample(ret'.parameters[1], space,
                                        ret'.gridResult[1], k)
                   /\ NoneBetter(ret'.parameters[1], space,
                                 ret'.gridResult[1], passing)]_vars

\* a grid search succeeded on a box where some samples pass checkConstraints
\* and others do not, and where a passing sample has a utility below the
\* one returned
C15_Witness ==
    /\ RanOptimizer(ret)
    /\ ret.gridResult[1].success
    /\ \E k \in GridIndices :
           k \notin PassingIndices(ret.parameters[1], ret.searchSpace[1])
    /\ \E k \in PassingIndices(ret.parameters[1], ret.searchSpace[1]) :
           Utility(ret.parameters[1], GridW1(ret.searchSpace[1], k),
                   GridW2(ret.searchSpace[1], k)) < ret.gridResult[1].utility

ColdEvaluations(parameters) ==
    gridSearch(parameters,
               determineSearchSpace(parameters, FALSE, Null, Null)).evaluations

\* C17: a grid search over a box that was centred on the warm-start hint
\* uses a smaller step count, and so visits fewer samples, than a grid
\* search for the same parameters over the cold box.
C17_WarmStartUsesFewerSteps ==
    (RanOptimizer(ret) /\ ret.searchSpace[1].radius = (2 * Scale) \div 10) =>
        ret.gridResult[1].evaluations < ColdEvaluations(ret.parameters[1])

(***************************************************************************)
(* Similar parameters                                                      *)
(***************************************************************************)
\* |a - b| / max(a, b) <= 0.10 as JavaScript evaluates it: 0/0 is NaN and
\* x/0 is Infinity, and neither is <= 0.10
RatioWithinTenth(a, b) ==
    IF Max2(a, b) = 0 THEN FALSE
    ELSE IF Max2(a, b) > 0 THEN 10 * Abs(a - b) <= Max2(a, b)
    ELSE TRUE

\* the comparison has been made and has found the parameters similar
FoundSimilar == ret.kind = "similar"

Compared == ret.kind \in {"similar", "different"}

\* C18 as stated: the parameters are similar exactly when stored parameters
\* exist and |a - b| / max(a, b) <= 0.10 for each of r, rho, gamma, eta,
\* beta and tau.
C18_SimilarIffRatiosWithinTenth ==
    Compared =>
        (FoundSimilar <=>
            /\ lastParameters # Null
            /\ \A param \in ImportantParams :
                   RatioWithinTenth(ret.parameters[1][param],
                                    lastParameters[1][param]))

\* C18: the parameters are similar exactly when stored parameters exist and,
\* for each of r, rho, gamma, eta, beta and tau, the two values are both
\* zero or |a - b| / max(a, b) <= 0.10; t1, t2 and w0 play no part.
C18_SimilarIffNoRatioAboveTenth ==
    Compared =>
        (FoundSimilar <=>
            /\ lastParameters # Null
            /\ \A param \in ImportantParams :
                   \/ /\ ret.parameters[1][param] = 0
                      /\ lastParameters[1][param] = 0
                   \/ RatioWithinTenth(ret.parameters[1][param],
                                       lastParameters[1][param]))

\* parameters with beta exactly 10% below the stored beta, and a tax rate
\* of zero on both sides, were found similar
C18_Witness ==
    /\ FoundSimilar
    /\ lastParameters = Some(DefaultParameters)
    /\ ret.parameters[1].beta = (27 * Scale) \div 10
    /\ ret.parameters[1].tau = 0

(***************************************************************************)
(* Cache keys                                                              *)
(***************************************************************************)
\* every numeric field of a and b agrees after rounding to 3 decimals
AgreeRounded(a, b) ==
    \A i \in DOMAIN FieldOrder :
        Rounded(FieldOrder[i], a[FieldOrder[i]])
            = Rounded(FieldOrder[i], b[FieldOrder[i]])

\* C19: two parameters objects have the same cache key exactly when every
\* numeric field agrees after rounding to 3 decimals, whatever the order in
\* which the fields were put on each object.
C19_KeyIsCanonical ==
    (ret.kind = "keyed" /\ lastParameters # Null) =>
        (ret.key[1] = generateCacheKey(lastParameters[1])
            <=> AgreeRounded(ret.parameters[1], lastParameters[1]))

(***************************************************************************)
(* The value of lifetimeUtility                                            *)
(***************************************************************************)
\* one of the conditions under which no utility exists: a period of no
\* length, gamma = 0, no wealth left to consume in the first period
\* (term1 <= 0), a period utility that U2 refuses, or a bequest w2 <= 0
Infeasible(p, w1, w2) ==
    \/ p.t1 <= 0
    \/ p.t2 <= 0
    \/ p.gamma = 0
    \/ w1 = NaN \/ w2 = NaN
    \/ LessEq(w2, 0)
    \/ (isFinite(w1) /\ MaxW1(p) - w1 <= 0)
    \/ ~U2(p.r, p.rho, p.gamma, p.t1, p.w0, w1).ok
    \/ ~U2(p.r, p.rho, p.gamma, p.t2, AfterTax(w1, p.tau), w2).ok

\* C20: lifetimeUtility returns a finite number for every input, and exactly
\* the sentinel -5000 when a period utility is infeasible (T <= 0,
\* term1 <= 0, term2 <= 0, gamma = 0, a non-finite intermediate result) or
\* w2 <= 0.
C20_UtilityFiniteOrSentinel ==
    ret.kind = "utility" =>
        /\ isFinite(ret.result.utility)
        /\ Infeasible(ret.parameters[1], ret.result.w1, ret.result.w2) =>
               ret.result.utility = Sentinel

\* lifetimeUtility gave the sentinel for a bequest of zero after two period
\* utilities that exist
C20_Witness ==
    /\ ret.kind = "utility"
    /\ ret.result.utility = Sentinel
    /\ ret.result.w2 = 0
    /\ U2(ret.parameters[1].r, ret.parameters[1].rho, ret.parameters[1].gamma,
          ret.parameters[1].t1, ret.parameters[1].w0, ret.result.w1).ok
    /\ U2(ret.parameters[1].r, ret.parameters[1].rho, ret.parameters[1].gamma,
          ret.parameters[1].t2,
          AfterTax(ret.result.w1, ret.parameters[1].tau), 0).ok

(***************************************************************************)
(* checkConstraints                                                        *)
(***************************************************************************)
\* C21: checkConstraints returns true exactly for 0 < w1 < w0 e^(r t1) and
\* 0 < w2 < w1 (1 - tau) e^(r t2): false on each boundary, true just inside.
C21_ConstraintsIffStrictlyInside ==
    ret.kind \in {"inside", "outside"} =>
        (ret.kind = "inside"
            <=> StrictlyInside(ret.result.w1, ret.result.w2, ret.parameters[1]))

(***************************************************************************)
(* Parameters the validator refuses                                        *)
(***************************************************************************)
\* one of the rules r > rho, t1 + t2 <= 120, t1 >= 5, gamma # 1, eta # 1 is
\* broken
BreaksRule(p) ==
    \/ p.r <= p.rho
    \/ p.t1 + p.t2 > 120
    \/ p.t1 < 5
    \/ p.gamma = Scale
    \/ p.eta = Scale

\* C22: a findOptimalWealth call with parameters that break a validation
\* rule throws the ValidationError and nothing else happens: the cache map,
\* its LRU order and the warm-start slot are what they were.
C22_RefusedCallChangesNothing ==
    [][(calls' = calls + 1 /\ BreaksRule(ret'.parameters[1])) =>
           /\ ret'.kind = "invalid"
           /\ UNCHANGED <<cache, cacheOrder, lastOptimalResult,
                          lastParameters>>]_vars

\* a call was refused while the cache held an expired entry under the very
\* key of the refused parameters, and the warm-start slot was filled
C22_Witness ==
    /\ ret.kind = "invalid"
    /\ BreaksRule(ret.parameters[1])
    /\ generateCacheKey(ret.parameters[1]) \in DOMAIN cache
    /\ Expired(cache[generateCacheKey(ret.parameters[1])], now)
    /\ lastOptimalResult # Null

(***************************************************************************)
(* What the caller holds and what the service holds                        *)
(***************************************************************************)
\* the caller has just written to the result or the parameters of its call
Written == ret.kind \in {"result written", "parameters written"}

\* C23: a caller that writes to the result it was given, or to its
\* parameters object, after the call changes neither the cache entries nor
\* the warm-start hint and its parameters, and a later hit returns what was
\* stored.
C23_CallerWritesStayWithCaller ==
    [][/\ Written' /\ ~Written =>
              UNCHANGED <<cache, cacheOrder, lastOptimalResult,
                          lastParameters>>
       /\ ret'.kind = "hit" => /\ ret'.result # Overwritten(ret'.result)
                               /\ ret'.result = cache'[ret'.key[1]].result]_vars

\* a caller wrote to the result it was given while the cache held the
\* entry of its key and the warm-start slot the hint
C23_Witness ==
    /\ ret.kind = "result written"
    /\ ret.key # Null
    /\ ret.key[1] \in DOMAIN cache
    /\ cache[ret.key[1]].result # ret.result
    /\ lastOptimalResult # Null
    /\ ret.result.w1 # lastOptimalResult[1].w1

(***************************************************************************)
(* Application.reset()                                                     *)
(***************************************************************************)
\* the box of a cold start: centre (0.6 maxW1, 0.5 maxW1), radius 0.4
ColdSearchSpace(parameters) ==
    SearchBox([centerW1 |-> MulS(MaxW1(parameters), (6 * Scale) \div 10),
               centerW2 |-> MulS(MaxW1(parameters), (5 * Scale) \div 10),
               radius |-> (4 * Scale) \div 10],
              MaxW1(parameters))

\* C24: after Application.reset() the cache map and its LRU order are empty
\* and the warm-start slot is null, and the next findOptimalWealth call is
\* a cache miss that searches the cold box.
C24_ResetDiscardsHistory ==
    [][/\ ret'.kind = "reset" =>
              /\ cache' = <<>>
              /\ cacheOrder' = <<>>
              /\ lastOptimalResult' = Null
              /\ lastParameters' = Null
       /\ (ret.kind = "reset" /\ calls' = calls + 1) =>
              /\ ret'.kind = "miss"
              /\ ~ret'.cacheHit
              /\ ret'.searchSpace = Some(ColdSearchSpace(ret'.parameters[1]))]_vars

\* the third call, with no time gone by, left the cache with its entry
\* alone: an earlier call had stored an entry and filled the slot, reset()
\* came after it, and this call searched the cold box
C24_Witness ==
    /\ ret.kind = "miss"
    /\ calls = 3
    /\ now = 0
    /\ cacheOrder = <<ret.key[1]>>
    /\ DOMAIN cache = {ret.key[1]}
    /\ ret.searchSpace = Some(ColdSearchSpace(ret.parameters[1]))

(***************************************************************************)
(* The worker and the fallback to the main thread                          *)
(***************************************************************************)
\* the worker of the call that r describes failed or timed out
WorkerLost(r) == r.worker \in {"error", "crashed", "timeout"}

\* C25: with useWebWorkers on, a call whose worker fails or times out
\* returns, when fallbackToMainThread is on, what the main-thread solver
\* returns for the same parameters (or fails as that solver fails) and
\* stores it, and the worker's error reaches the caller only when
\* fallbackToMainThread is off, and then nothing is stored.
C25_WorkerFailureFallsBack ==
    [][(calls' = calls + 1 /\ WorkerLost(ret')) =>
           IF workerOptions.fallbackToMainThread
             THEN /\ ret'.kind \in {"miss", "failed"}
                  /\ ret'.kind = "miss" =>
                         /\ ret'.result \in OptimizerRuns(ret'.parameters[1],
                                                          lastOptimalResult,
                                                          lastParameters)
                         /\ cache'[ret'.key[1]].result = ret'.result
                  /\ ret'.kind = "failed" =>
                         OptimizerRuns(ret'.parameters[1], lastOptimalResult,
                                       lastParameters) = {}
             ELSE /\ ret'.kind = "worker failed"
                  /\ ret'.key[1] \notin DOMAIN cache'
                  /\ UNCHANGED <<lastOptimalResult, lastParameters>>]_vars

\* a call whose worker timed out returned the main thread's result for a
\* warm start, which the worker never makes
C25_Witness ==
    /\ ret.kind = "miss"
    /\ ret.worker = "timeout"
    /\ workerOptions.fallbackToMainThread
    /\ ret.searchSpace # Some(ColdSearchSpace(ret.parameters[1]))
    /\ ret.result.method = "numerical_refinement"

\* the four bounds of a search box
Bounds(space) == <<space.w1Min, space.w1Max, space.w2Min, space.w2Max>>

\* C26: for the same parameters and gridSteps and an empty warm-start slot
\* the worker searches the box the main thread searches, with as many
\* samples, and returns a result the main-thread solver returns.
C26_WorkerSameAsMainThread ==
    [][(calls' = calls + 1 /\ ret'.worker = "result" /\ lastOptimalResult = Null) =>
           /\ Bounds(ret'.searchSpace[1])
                  = Bounds(determineSearchSpace(ret'.parameters[1], warmStartEnabled,
                                                Null, Null))
           /\ ret'.gridResult[1].evaluations = (GridSteps + 1) * (GridSteps + 1)
           /\ ret'.result \in OptimizerRuns(ret'.parameters[1], Null, Null)]_vars

\* the six wealths of one kind the table was made from
BeforeTaxWealths == [i \in DOMAIN taxTable.data |-> taxTable.data[i].w1]

AfterTaxWealths ==
    [i \in DOMAIN taxTable.data |->
        Times(taxTable.data[i].w1, Scale - TaxRates[i])]

Bequests == [i \in DOMAIN taxTable.data |-> taxTable.data[i].w2]

\* the mean of the five slopes between successive tax rates, over ten
MeanOfFiveOverTen(ys) ==
    IF \E i \in 1..6 : ys[i] = NaN THEN NaN
    ELSE LET step == Scale \div 10
             slope(i) == DivS(ys[i + 1] - ys[i], step)
             mean == DivS(slope(1) + slope(2) + slope(3) + slope(4) + slope(5),
                          5 * Scale)
         IN  DivS(mean, 10 * Scale)

\* the table function asks for tax rate number calls', with the caller's
\* other parameters
AsksNextRate ==
    calls' = calls + 1 =>
        /\ calls' <= Len(TaxRates)
        /\ ret'.parameters =
               Some([taxTable.parameters[1] EXCEPT !.tau = TaxRates[calls']])

\* the step on which the table function returns
TableReturns == taxTable.state = "running" /\ taxTable'.state = "returned"

\* C27 (as the code has it): generateTaxEffectTable calls findOptimalWealth
\* once for each of the tax rates 0, 0.1, ..., 0.5, in ascending order and
\* with the other parameters unchanged, and each of the three effects it
\* reports is the mean of the five successive slopes divided by 10 and then
\* rounded to three decimals by toFixed(3).
C27_TableEffectsRounded ==
    [][/\ AsksNextRate
       /\ TableReturns =>
              /\ calls = Len(TaxRates)
              /\ Len(taxTable'.data) = Len(TaxRates)
              /\ \A i \in 1..Len(TaxRates) : taxTable'.data[i].x = TaxRates[i]
              /\ taxTable'.effects[1].before =
                     toFixed3(MeanOfFiveOverTen(BeforeTaxWealths'))
              /\ taxTable'.effects[1].after =
                     toFixed3(MeanOfFiveOverTen(AfterTaxWealths'))
              /\ taxTable'.effects[1].bequest =
                     toFixed3(MeanOfFiveOverTen(Bequests'))]_vars

\* C27 as stated: each reported effect is the mean of the five slopes
\* divided by 10.
C27_TableEffectsExact ==
    [][/\ AsksNextRate
       /\ TableReturns =>
              /\ taxTable'.effects[1].before =
                     MeanOfFiveOverTen(BeforeTaxWealths')
              /\ taxTable'.effects[1].after =
                     MeanOfFiveOverTen(AfterTaxWealths')
              /\ taxTable'.effects[1].bequest =
                     MeanOfFiveOverTen(Bequests')]_vars

\* C27 witness: the table has been made from six answers, and the mean slope
\* of the before-tax wealth over ten is a number that has a fourth decimal
C27_Witness ==
    /\ taxTable.state = "returned"
    /\ calls = Len(TaxRates)
    /\ MeanOfFiveOverTen(BeforeTaxWealths) # NaN
    /\ MeanOfFiveOverTen(BeforeTaxWealths) % Milli # 0
    /\ taxTable.effects[1].before % Milli = 0

\* the keys on the LRU list
OrderKeys == {cacheOrder[i] : i \in DOMAIN cacheOrder}

\* C28: in every reachable state the LRU list cacheOrder holds exactly the
\* keys of the cache map, each of them once.
C28_OrderHoldsExactlyTheKeys ==
    /\ OrderKeys = DOMAIN cache
    /\ \A i, j \in DOMAIN cacheOrder :
           cacheOrder[i] = cacheOrder[j] => i = j

\* C29: in every reachable state the cache map holds at most cacheSize
\* entries, whatever the order of puts, hits, expiries and re-insertions of
\* expired keys.
C29_CacheNeverOverfull == Cardinality(DOMAIN cache) <= CacheSize

\* C29 witness: a run was stored when the list was full, the oldest key was
\* evicted for it, and the cache holds cacheSize entries, every one of them
\* live
C29_Witness ==
    /\ ret.kind = "miss"
    /\ calls = CacheSize + 1
    /\ Cardinality(DOMAIN cache) = CacheSize
    /\ Len(cacheOrder) = CacheSize
    /\ Cardinality({generateCacheKey(parameters) : parameters \in FullWorkload}
                       \ DOMAIN cache) = 1

\* one call awaited to its return, at time t on the service: what it can
\* leave and return
Awaited(service, t, parameters) ==
    Bind(Begun(service, t, parameters), LAMBDA begun :
        IF begun.suspended = Null
          THEN {[service |-> begun.service, returned |-> begun.returned[1]]}
          ELSE {Resumed(begun.service, t, begun.suspended[1], choice) :
                    choice \in MinimizerChoices})

\* the services and results of the serial executions of the two calls from
\* the service base at time t: one caller's call awaited, then the other's
SerialOutcomes(base, t, made) ==
    UNION {UNION {{[service |-> then.service,
                    returned |->
                        {ReturnedTo(order[1], made[order[1]], once.returned),
                         ReturnedTo(order[2], made[order[2]], then.returned)}] :
                       then \in Awaited(once.service, t, made[order[2]])} :
                     once \in Awaited(base, t, made[order[1]])} :
              order \in {<<"first", "second">>, <<"second", "first">>}}

\* the parameters each caller passed
Made == [caller \in Callers |->
            (CHOOSE r \in inFlight.returned : r.caller = caller).parameters]

\* both callers have their answers
BothReturned ==
    inFlight.pending = <<>> /\ \A caller \in Callers :
        \E r \in inFlight.returned : r.caller = caller

\* the two calls had one cache key
OneKey ==
    \A r, q \in inFlight.returned :
        generateCacheKey(r.parameters) = generateCacheKey(q.parameters)

\* C30: overlapping findOptimalWealth calls are not serializable.  A call
\* that starts before an earlier one has stored its result seeds its search
\* box from the warm-start hint as it was before either call, and when two
\* such calls with one cache key both find a result, both are cache misses
\* and the service and the results they leave are those of no serial
\* execution of the two calls; calls that do not overlap leave what a serial
\* execution leaves.
C30_OverlappingCallsNotSerializable ==
    /\ \A i \in DOMAIN inFlight.pending :
           i > 1 =>
               inFlight.pending[i].call.searchSpace =
                   determineSearchSpace(inFlight.pending[i].call.parameters,
                                        warmStartEnabled,
                                        inFlight.base[1].lastOptimalResult,
                                        inFlight.base[1].lastParameters)
    /\ BothReturned =>
           IF ~inFlight.overlapped
             THEN [service |-> Service, returned |-> inFlight.returned]
                      \in SerialOutcomes(inFlight.base[1], now, Made)
           ELSE OneKey /\ (\A r \in inFlight.returned : r.kind # "failed") =>
                   /\ \A r \in inFlight.returned : r.kind = "miss"
                   /\ [service |-> Service, returned |-> inFlight.returned]
                          \notin SerialOutcomes(inFlight.base[1], now, Made)

\* C30 witness: two calls for one cache key overlapped, both missed the
\* cache and both stored a result: the LRU list names the key twice
C30_Witness ==
    /\ BothReturned
    /\ inFlight.overlapped
    /\ OneKey
    /\ \A r \in inFlight.returned : r.kind = "miss"
    /\ Len(cacheOrder) = 2
    /\ cacheOrder[1] = cacheOrder[2]

\* the jobs submitted so far
Submitted == 1..(manager.nextJobId - 1)

\* C31: every job submitted through optimizeWealth is settled exactly once:
\* its resolve and reject are called once between them, a job is active
\* exactly as long as it has not been settled, and every submitted job is
\* settled in the end, whatever the order of results, errors, crashes,
\* timeouts and destroy.
C31_JobSettledExactlyOnce ==
    /\ [](\A job \in Submitted :
              /\ Len(manager.settled[job]) <= 1
              /\ job \in manager.activeJobs <=> manager.settled[job] = <<>>)
    /\ \A job \in 1..MaxJobs :
           (job \in Submitted) ~>
               (job \in Submitted /\ Len(manager.settled[job]) = 1)

\* C31 witness: a job was rejected by its timeout, and the worker it was
\* assigned to posted its message afterwards
C31_Witness ==
    \E w \in DOMAIN manager.info :
        /\ manager.info[w].alive
        /\ manager.info[w].currentJobId # 0
        /\ manager.info[w].running = 0
        /\ manager.settled[manager.info[w].currentJobId] = <<"Job timeout">>

\* C32: a live pooled worker that has finished the job assigned to it is
\* not busy: no worker stays busy without a job that it runs.
C32_FinishedWorkerIsFreed ==
    \A i \in DOMAIN manager.workers :
        LET w == manager.workers[i]
        IN  manager.info[w].alive /\ manager.info[w].running = 0
                => ~manager.info[w].busy

\* a step on which a job becomes the current job of a worker
Hands(w, job) ==
    /\ w \in DOMAIN manager'.info
    /\ manager'.info[w].currentJobId = job
    /\ (w \in DOMAIN manager.info => manager.info[w].currentJobId # job)

\* C33: every job that is handed to a worker is in activeJobs at that
\* moment: a job rejected while it waited in jobQueue is never assigned.
C33_OnlyActiveJobsAssigned ==
    [][\A job \in 1..MaxJobs :
           (\E w \in DOMAIN manager'.info : Hands(w, job))
               => job \in manager'.activeJobs]_vars

\* C34: once initialized, the pool holds exactly maxWorkers entries, and
\* every live worker is in it exactly once.
C34_PoolHoldsEachWorkerOnce ==
    manager.isInitialized =>
        /\ Len(manager.workers) = MaxWorkers
        /\ \A w \in DOMAIN manager.info :
               manager.info[w].alive =>
                   Cardinality({i \in DOMAIN manager.workers :
                                    manager.workers[i] = w}) = 1

(***************************************************************************)
(* The Application on the ApplicationState and the optimization service    *)
(* of the page (useWebWorkers: false).  A task of the page (a UI event, a  *)
(* timer callback, a call of a method of window.application) runs to its   *)
(* end before the next one starts; every await of findOptimalWealth on the *)
(* main thread resumes in a microtask, so that no task runs between the    *)
(* start of performCalculation and its return.  The listeners are called   *)
(* inside setState and see the state in between.  The chart               *)
(* (handleOptimizationComplete, setChartConfig) and the performance        *)
(* statistics write none of the fields of getDefaultState above but        *)
(* errors, and are left out.                                               *)
(***************************************************************************)
VisualizationTypes == {"Wealth Trajectory", "Tax Effect Curves"}

\* clearTimeout(handle): the callback of handle, if it has not run, never
\* runs
clearTimeout(timers, handle) == {timer \in timers : timer.id # handle}

\* setTimeout(callback, delay): the handle is a new positive number;
\* callback is the function to run and what its closure holds
setTimeout(a, callback) ==
    [a EXCEPT !.timers = @ \cup {[id |-> a.nextTimer, callback |-> callback]},
              !.nextTimer = @ + 1]

\* () => this.performCalculation(newState.parameters,
\* newState.visualizationType)
Throttled(newState) ==
    [run |-> "performCalculation",
     parameters |-> Some(newState.parameters),
     visualizationType |-> Some(newState.visualizationType)]

\* () => this.performInitialCalculation()
Initial ==
    [run |-> "performInitialCalculation", parameters |-> Null,
     visualizationType |-> Null]

\* variant: handleParameterChange arms a timer and leaves the one it armed
\* before to run
handleParameterChangeKeepsTimer(a, newState) ==
    [setTimeout(a, Throttled(newState))
        EXCEPT !.calculationThrottle = a.nextTimer]

\* handleParameterChange(newState): clearTimeout(this.calculationThrottle),
\* then this.calculationThrottle = setTimeout(() =>
\* performCalculation(newState.parameters, newState.visualizationType),
\* this.throttleDelay)
handleParameterChange(a, newState) ==
    Bind([a EXCEPT !.timers = IF a.calculationThrottle # 0
                                THEN clearTimeout(@, a.calculationThrottle)
                                ELSE @], LAMBDA cleared :
        [setTimeout(cleared, Throttled(newState))
            EXCEPT !.calculationThrottle = a.nextTimer])

\* getChangeSet(newState, oldState): the keys whose values are not the same
\* (!==).  made are the keys of the update that hold an object made for it,
\* which is never the same as the one before; oldState is Null for the {}
\* that reset() passes, in which no key has the value of newState
getChangeSet(newState, oldState, made) ==
    IF oldState = Null THEN DOMAIN newState
    ELSE {key \in DOMAIN newState :
              key \in made \/ newState[key] # oldState[1][key]}

\* handleStateChange(newState, oldState, changeSet), the listener that
\* setupStateListener subscribes
handleStateChange(a, changeSet) ==
    IF "parameters" \in changeSet \/ "visualizationType" \in changeSet
      THEN handleParameterChange(a, a.state)
      ELSE a

\* notifyListeners(newState, oldState): the listener of the Application,
\* once it is subscribed
notifyListeners(a, oldState, made) ==
    IF a.isInitialized
      THEN handleStateChange(a, getChangeSet(a.state, oldState, made))
      ELSE a

\* setState(updates, source); made as in getChangeSet
setState(a, updates, made) ==
    notifyListeners([a EXCEPT !.state = updates @@ a.state],
                    Some(a.state), made)

\* variant: setParameters does not ask for a recalculation
setParametersQuietly(a, newParameters) ==
    setState(a, [parameters |-> newParameters], {"parameters"})

\* setParameter(parameterName, value) and setParameters(parameterUpdates):
\* newParameters is {...this.state.parameters, ...parameterUpdates}
setParameters(a, newParameters) ==
    setState(a, [parameters |-> newParameters, needsRecalculation |-> TRUE],
             {"parameters"})

\* setVisualizationType(visualizationType)
setVisualizationType(a, visualizationType) ==
    setState(a, [visualizationType |-> visualizationType,
                 needsRecalculation |-> TRUE], {})

\* variant: setCalculationResults leaves isCalculating as it is
setCalculationResultsStillCalculating(a, results) ==
    setState(a, [lastOptimizationResult |-> Some(results),
                 needsRecalculation |-> FALSE,
                 errors |-> <<>>],
             {"lastOptimizationResult", "errors"})

\* setCalculationResults(results)
setCalculationResults(a, results) ==
    setState(a, [lastOptimizationResult |-> Some(results),
                 needsRecalculation |-> FALSE,
                 isCalculating |-> FALSE,
                 errors |-> <<>>],
             {"lastOptimizationResult", "errors"})

\* setCalculating(isCalculating)
setCalculating(a, isCalculating) ==
    IF isCalculating
      THEN setState(a, [isCalculating |-> TRUE, errors |-> <<>>], {"errors"})
      ELSE setState(a, [isCalculating |-> FALSE], {})

\* addError(error)
addError(a, error) ==
    setState(a, [errors |-> Append(a.state.errors, error),
                 isCalculating |-> FALSE], {"errors"})

\* ApplicationState.reset(): the default state, and
\* notifyListeners(this.state, {})
resetState(a) ==
    notifyListeners([a EXCEPT !.state = getDefaultState], Null, {})
\* what is thrown: the class of the error
PlainError == [class |-> "Error"]

OptimizationError == [class |-> "OptimizationError"]

\* variant: OptimizationError extends MathematicalError, which is tested
\* first
categorizeErrorBySuperclass(error) ==
    IF error.class \in {"MathematicalError", "OptimizationError"}
      THEN "INVALID_UTILITY_CALCULATION"
    ELSE IF error.class = "ValidationError" THEN "PARAMETER_OUT_OF_RANGE"
    ELSE IF error.class = "VisualizationError" THEN "CHART_CREATION_FAILED"
    ELSE "UNKNOWN_ERROR"

\* categorizeError(error, context).code: the instanceof tests in their
\* order; the four classes extend Error and not each other.  The code of a
\* MathematicalError is the one determineMathErrorCode gives a message
\* without any of the words it looks for
categorizeError(error) ==
    IF error.class = "MathematicalError" THEN "INVALID_UTILITY_CALCULATION"
    ELSE IF error.class = "OptimizationError" THEN "OPTIMIZATION_FAILED"
    ELSE IF error.class = "ValidationError" THEN "PARAMETER_OUT_OF_RANGE"
    ELSE IF error.class = "VisualizationError" THEN "CHART_CREATION_FAILED"
    ELSE "UNKNOWN_ERROR"

\* handleError(error, context): the code and the context of the entry
handleError(error, context) ==
    [code |-> categorizeError(error), context |-> context]

\* performCalculation is entered: the call is counted; what it was called
\* with and the result it found are kept
Entered(a, trigger, parameters, visualizationType) ==
    [a EXCEPT !.performed = @ + 1,
              !.running = Some([trigger |-> trigger,
                                parameters |-> parameters,
                                visualizationType |-> visualizationType,
                                before |->
                                    a.state.lastOptimizationResult])]

\* performCalculation returns (thrown: an exception leaves it instead)
Returned(a, outcome, thrown) ==
    [a EXCEPT !.running = Null,
              !.finished = Some([outcome |-> outcome, thrown |-> thrown]
                                    @@ a.running[1])]

\* the catch block of performCalculation
Caught(a, error) ==
    addError(setCalculating(a, FALSE),
             handleError(error, "optimization_calculation"))

\* performCalculation(parameters, visualizationType) up to the await of
\* findOptimalWealth, or to its return when validateParameters refuses the
\* parameters
performCalculationBegins(a, trigger, parameters, visualizationType) ==
    Bind(Entered(a, trigger, parameters, visualizationType), LAMBDA entered :
        IF ~ValidParameters(parameters)
          THEN Returned(Caught(entered, PlainError), "validation", FALSE)
          ELSE setCalculating(entered, TRUE))

\* performCalculation from the await to its return: returned is what
\* findOptimalWealth returned or that it threw its OptimizationError
performCalculationResumes(a, returned) ==
    IF returned.kind = "failed"
      THEN Returned(Caught(a, OptimizationError), "optimization", FALSE)
      ELSE Returned(
               setCalculationResults(a,
                   [result |-> returned.result,
                    cacheHit |-> returned.cacheHit,
                    parameters |-> a.running[1].parameters,
                    visualizationType |-> a.running[1].visualizationType]),
               "success", FALSE)

\* the timer that runs next: the delays are the same (100 ms), so the
\* callbacks run in the order in which they were armed
Due(timers) ==
    CHOOSE timer \in timers : \A other \in timers : timer.id <= other.id

\* the fields that the actions of the Application leave alone
AppIdle ==
    <<warmStartEnabled, workerOptions, now, taxTable, inFlight, manager>>

\* the fields of the service, which only a calculation and reset() touch
ServiceIdle ==
    <<cache, cacheOrder, lastOptimalResult, lastParameters, recency, calls,
      ret>>

\* a task of the page may start: startApplication has initialized the
\* Application before it set up the controls and window.application, and
\* no calculation is in progress
TaskMayRun == app.isInitialized /\ app.running = Null

\* the Application as the next task finds it
Task == [app EXCEPT !.finished = Null]

\* Application.initialize(): setupStateListener() and
\* setTimeout(() => this.performInitialCalculation(), 100)
Initialize ==
    /\ ~app.isInitialized
    /\ app.nextTimer <= MaxTimers
    /\ app' = [setTimeout(app, Initial) EXCEPT !.isInitialized = TRUE]
    /\ UNCHANGED <<AppIdle, ServiceIdle>>

\* a slider is moved (UIController.handleParameterChange: setParameter) or
\* a preset is selected (handlePresetScenario: setParameters)
SetParameters(parameterUpdates) ==
    /\ TaskMayRun
    /\ app.nextTimer <= MaxTimers
    /\ app' = setParameters(Task, parameterUpdates @@ app.state.parameters)
    /\ UNCHANGED <<AppIdle, ServiceIdle>>

\* the visualization is selected (handleVisualizationTypeChange); the
\* change event comes with another value than the one before
SetVisualizationType(visualizationType) ==
    /\ TaskMayRun
    /\ app.nextTimer <= MaxTimers
    /\ visualizationType # app.state.visualizationType
    /\ app' = setVisualizationType(Task, visualizationType)
    /\ UNCHANGED <<AppIdle, ServiceIdle>>

\* handleResetDefaults: setParameters(DEFAULT_PARAMETERS), then
\* setVisualizationType('Wealth Trajectory')
ResetDefaults ==
    /\ TaskMayRun
    /\ app.nextTimer + 1 <= MaxTimers
    /\ app' = setVisualizationType(
                  setParameters(Task, [field \in DOMAIN DefaultParameters
                                        \ {"order"} |->
                                          DefaultParameters[field]]
                                         @@ app.state.parameters),
                  "Wealth Trajectory")
    /\ UNCHANGED <<AppIdle, ServiceIdle>>

\* the callback of handleParameterChange runs
ThrottledCalculationFires ==
    /\ TaskMayRun
    /\ app.timers # {}
    /\ app.performed < MaxCalls
    /\ \E timer \in {Due(app.timers)} :
           /\ timer.callback.run = "performCalculation"
           /\ app' = performCalculationBegins(
                         [Task EXCEPT !.timers = @ \ {timer}], "throttled",
                         timer.callback.parameters[1],
                         timer.callback.visualizationType[1])
    /\ UNCHANGED <<AppIdle, ServiceIdle>>

\* the callback of initialize runs: performInitialCalculation()
InitialCalculationFires ==
    /\ TaskMayRun
    /\ app.timers # {}
    /\ app.performed < MaxCalls
    /\ \E timer \in {Due(app.timers)} :
           /\ timer.callback.run = "performInitialCalculation"
           /\ app' = performCalculationBegins(
                         [Task EXCEPT !.timers = @ \ {timer}], "initial",
                         app.state.parameters, app.state.visualizationType)
    /\ UNCHANGED <<AppIdle, ServiceIdle>>

\* forceRecalculation()
ForceRecalculation ==
    /\ TaskMayRun
    /\ app.performed < MaxCalls
    /\ app' = performCalculationBegins(
                  [Task EXCEPT !.timers =
                                  IF app.calculationThrottle # 0
                                    THEN clearTimeout(@,
                                             app.calculationThrottle)
                                    ELSE @,
                              !.calculationThrottle = 0], "forced",
                  app.state.parameters, app.state.visualizationType)
    /\ UNCHANGED <<AppIdle, ServiceIdle>>

\* findOptimalWealth returns or throws, and performCalculation goes on to
\* its return
CalculationCompletes ==
    /\ app.running # Null
    /\ \E outcome \in Awaited(Service, now, app.running[1].parameters) :
           /\ app' = performCalculationResumes(app, outcome.returned)
           /\ ServiceBecomes(outcome.service)
    /\ calls' = calls + 1
    /\ ret' = NoCall
    /\ UNCHANGED AppIdle

\* Application.reset(): clearTimeout, clearCache(), resetWarmStart() and
\* this.state.reset()
ResetApplication ==
    /\ TaskMayRun
    /\ app.nextTimer <= MaxTimers
    /\ app' = resetState([Task EXCEPT !.timers =
                                         IF app.calculationThrottle # 0
                                           THEN clearTimeout(@,
                                                    app.calculationThrottle)
                                           ELSE @,
                                     !.calculationThrottle = 0])
    /\ cache' = <<>>
    /\ cacheOrder' = <<>>
    /\ recency' = <<>>
    /\ lastOptimalResult' = Null
    /\ lastParameters' = Null
    /\ ret' = NoCall
    /\ UNCHANGED <<AppIdle, calls>>
\* PRESET_SCENARIOS: the parameters of each scenario
PRESET_SCENARIOS ==
    [newParents |->
         [r |-> (6 * Scale) \div 100, rho |-> (4 * Scale) \div 100,
          gamma |-> Scale, eta |-> (15 * Scale) \div 10, beta |-> 3 * Scale,
          tau |-> (25 * Scale) \div 100, t1 |-> 18, t2 |-> 27, w0 |-> Scale],
     multipleChildren |->
         [r |-> (6 * Scale) \div 100, rho |-> (4 * Scale) \div 100,
          gamma |-> (12 * Scale) \div 10, eta |-> (17 * Scale) \div 10,
          beta |-> 4 * Scale, tau |-> (40 * Scale) \div 100, t1 |-> 18,
          t2 |-> 25, w0 |-> Scale],
     lateStart |->
         [r |-> (7 * Scale) \div 100, rho |-> (5 * Scale) \div 100,
          gamma |-> (8 * Scale) \div 10, eta |-> (13 * Scale) \div 10,
          beta |-> (25 * Scale) \div 10, tau |-> (25 * Scale) \div 100,
          t1 |-> 8, t2 |-> 35, w0 |-> Scale],
     highAidImpact |->
         [r |-> (5 * Scale) \div 100, rho |-> (3 * Scale) \div 100,
          gamma |-> (15 * Scale) \div 10, eta |-> 2 * Scale,
          beta |-> 5 * Scale, tau |-> (50 * Scale) \div 100, t1 |-> 18,
          t2 |-> 25, w0 |-> Scale],
     longLife |->
         [r |-> (65 * Scale) \div 1000, rho |-> (35 * Scale) \div 1000,
          gamma |-> (9 * Scale) \div 10, eta |-> (14 * Scale) \div 10,
          beta |-> (35 * Scale) \div 10, tau |-> (30 * Scale) \div 100,
          t1 |-> 18, t2 |-> 40, w0 |-> Scale]]

\* what setParameter is called with: the tax at 25%, the tax at 99% (no
\* sample of the grid is feasible) and r down to rho (refused by the
\* validator)
ParameterUpdates ==
    {[tau |-> (25 * Scale) \div 100], [tau |-> (99 * Scale) \div 100],
     [r |-> InvalidParameters.r]}

NextApp ==
    \/ Initialize
    \/ \E parameterUpdates \in ParameterUpdates : SetParameters(parameterUpdates)
    \/ \E visualizationType \in VisualizationTypes :
           SetVisualizationType(visualizationType)
    \/ ResetDefaults
    \/ ThrottledCalculationFires
    \/ InitialCalculationFires
    \/ ForceRecalculation
    \/ CalculationCompletes
    \/ ResetApplication

SpecApp == InitLru /\ [][NextApp]_vars

\* the page on which presets are selected
NextPreset ==
    \/ Initialize
    \/ \E scenario \in DOMAIN PRESET_SCENARIOS :
           SetParameters(PRESET_SCENARIOS[scenario])
    \/ ThrottledCalculationFires
    \/ InitialCalculationFires
    \/ CalculationCompletes

SpecPreset == InitLru /\ [][NextPreset]_vars

\* the throttled calculations that are pending
ThrottledPending ==
    {timer \in app.timers : timer.callback.run = "performCalculation"}

\* a step on which the listener of the Application armed its timer: a
\* change of the parameters or of the visualization type was notified
ChangeNotified == app.isInitialized /\ app'.nextTimer # app.nextTimer

\* the performCalculation call of a step that enters it
Entering == IF app'.running # Null THEN app'.running[1] ELSE app'.finished[1]

\* a step on which the throttled calculation runs
ThrottledRuns ==
    /\ app'.performed = app.performed + 1
    /\ Entering.trigger = "throttled"

C36_UpToDateResultIsCurrent ==
    (~app.state.needsRecalculation
         /\ app.state.lastOptimizationResult # Null) =>
        /\ app.state.lastOptimizationResult[1].parameters
               = app.state.parameters
        /\ app.state.lastOptimizationResult[1].visualizationType
               = app.state.visualizationType

\* C36 witness: a calculation has replaced the result of older parameters
\* and of another visualization type by the one of the state, which is
\* marked up to date
C36_Witness ==
    /\ ~app.state.needsRecalculation
    /\ app.state.lastOptimizationResult # Null
    /\ app.finished # Null
    /\ app.finished[1].outcome = "success"
    /\ app.finished[1].before # Null
    /\ app.finished[1].before[1].parameters # app.state.parameters
    /\ app.finished[1].before[1].visualizationType
           # app.state.visualizationType
    /\ app.state.lastOptimizationResult[1].parameters = app.state.parameters

\* C37: isCalculating is true only while a performCalculation call waits for
\* findOptimalWealth, and it is false when the call has returned, by
\* success, by a validation failure or by an optimization error.
C37_CalculatingOnlyDuringCalculation ==
    /\ app.state.isCalculating => app.running # Null
    /\ app.finished # Null =>
           /\ app.finished[1].outcome
                  \in {"success", "validation", "optimization"}
           /\ ~app.state.isCalculating

\* C37 witness: after a calculation that succeeded, one has returned on a
\* validation failure: isCalculating is false and the error is listed
C37_Witness ==
    /\ app.finished # Null
    /\ app.finished[1].outcome = "validation"
    /\ app.finished[1].before # Null
    /\ ~app.state.isCalculating
    /\ Len(app.state.errors) = 1
    /\ app.running = Null

\* a step on which performCalculation returns after findOptimalWealth threw
\* its OptimizationError
OptimizationFails ==
    /\ app.running # Null
    /\ app'.finished # Null
    /\ app'.finished[1].outcome = "optimization"

\* C38: when findOptimalWealth fails with an OptimizationError during
\* performCalculation, the call returns without an exception, one entry
\* with the code OPTIMIZATION_FAILED is appended to state.errors, and
\* lastOptimizationResult is the one it was before the call.
C38_OptimizationErrorIsListed ==
    [][OptimizationFails =>
           /\ ~app'.finished[1].thrown
           /\ Len(app'.state.errors) = Len(app.state.errors) + 1
           /\ SubSeq(app'.state.errors, 1, Len(app.state.errors))
                  = app.state.errors
           /\ app'.state.errors[Len(app'.state.errors)].code
                  = "OPTIMIZATION_FAILED"
           /\ app'.state.lastOptimizationResult
                  = app.state.lastOptimizationResult
           /\ app'.state.lastOptimizationResult = app'.finished[1].before]_vars

\* C38 witness: a calculation for the 99% tax has failed after one that
\* succeeded: the result of the earlier one is still there, for other
\* parameters than those of the state, and the error is listed
C38_Witness ==
    /\ app.finished # Null
    /\ app.finished[1].outcome = "optimization"
    /\ app.finished[1].parameters.tau = (99 * Scale) \div 100
    /\ app.state.lastOptimizationResult # Null
    /\ app.state.lastOptimizationResult = app.finished[1].before
    /\ app.state.lastOptimizationResult[1].parameters # app.state.parameters
    /\ Len(app.state.errors) = 1
    /\ app.state.errors[1].code = "OPTIMIZATION_FAILED"

\* the parameters are those of the scenario
Selected(parameters, scenario) ==
    \A field \in DOMAIN PRESET_SCENARIOS[scenario] :
        parameters[field] = PRESET_SCENARIOS[scenario][field]

\* C39: every preset scenario passes the validator, so that a calculation
\* for the parameters of a preset never returns on a validation failure.
C39_PresetsPassValidation ==
    \A scenario \in DOMAIN PRESET_SCENARIOS :
        (app.finished # Null
             /\ Selected(app.finished[1].parameters, scenario)) =>
            /\ ValidParameters(app.finished[1].parameters)
            /\ app.finished[1].outcome # "validation"

====
